---- MODULE Spec2Model ----
(***************************************************************************)
(* Slot availability engine of the doctor dashboard's ScheduleCalendar    *)
(* (frontend/src/app/doctor-dashboard/components/ScheduleCalendar.tsx).    *)
(*                                                                         *)
(* Strings are modelled as sequences of one-character strings so that the  *)
(* code's string operations (split, padStart, includes, the regular        *)
(* expression of parseTime12to24) are computed rather than assumed.        *)
(***************************************************************************)
EXTENDS Integers, Sequences, FiniteSets, Bags

\* ------------------------------------------------------------------------
\* Bounds of the model
\* ------------------------------------------------------------------------
\* longest appointment list fetched from the API
MaxAppts == 2
\* loop iterations of generateTimeSlots that the model follows
MaxIter == 5

\* submit events of one visit of the profile page
MaxSubmits == 3

\* getAvailableSlots requests of one booking modal
MaxRequests == 3

\* clicks on the admin dashboard
MaxAdminEvents == 3

\* ------------------------------------------------------------------------
\* JavaScript strings and numbers
\* ------------------------------------------------------------------------
Digits == <<"0", "1", "2", "3", "4", "5", "6", "7", "8", "9">>

IsDigit(c) == \E i \in 1..10 : Digits[i] = c

DigitVal(c) == (CHOOSE i \in 1..10 : Digits[i] = c) - 1

\* \s of a regular expression, for the characters that occur in the model
IsSpace(c) == c = " "

\* String.prototype.toUpperCase on one character
UpperChar(c) ==
  CASE c = "a" -> "A"
    [] c = "m" -> "M"
    [] c = "p" -> "P"
    [] c = "b" -> "B"
    [] c = "d" -> "D"
    [] OTHER -> c

ToUpperCase(s) == [i \in 1..Len(s) |-> UpperChar(s[i])]

\* String.prototype.includes
Includes(s, sub) ==
  \E i \in 1..(Len(s) - Len(sub) + 1) : SubSeq(s, i, i + Len(sub) - 1) = sub

\* String.prototype.split with a one-character separator
RECURSIVE Split(_, _)
Split(s, sep) ==
  IF \E i \in 1..Len(s) : s[i] = sep
  THEN LET i == CHOOSE k \in 1..Len(s) :
                  s[k] = sep /\ \A j \in 1..(k - 1) : s[j] # sep
       IN <<SubSeq(s, 1, i - 1)>> \o Split(SubSeq(s, i + 1, Len(s)), sep)
  ELSE <<s>>

\* value of a string of decimal digits
RECURSIVE DigitsToInt(_)
DigitsToInt(s) ==
  IF Len(s) = 0 THEN 0
  ELSE 10 * DigitsToInt(SubSeq(s, 1, Len(s) - 1)) + DigitVal(s[Len(s)])

\* Number(string) for the decimal integers the engine builds and reads
Number(s) ==
  IF Len(s) > 0 /\ s[1] = "-"
  THEN 0 - DigitsToInt(SubSeq(s, 2, Len(s)))
  ELSE DigitsToInt(s)

\* parseInt on a capture of \d{1,2}
ParseInt(s) == DigitsToInt(s)

\* Number.prototype.toString for integers
RECURSIVE NatToString(_)
NatToString(n) ==
  IF n < 10 THEN <<Digits[n + 1]>>
  ELSE NatToString(n \div 10) \o <<Digits[(n % 10) + 1]>>

NumToString(n) == IF n < 0 THEN <<"-">> \o NatToString(0 - n) ELSE NatToString(n)

\* String.prototype.padStart(2, '0')
PadStart2(s) ==
  IF Len(s) >= 2 THEN s
  ELSE IF Len(s) = 1 THEN <<"0">> \o s
  ELSE <<"0", "0">>

\* ------------------------------------------------------------------------
\* formatTime and parseTime12to24
\* ------------------------------------------------------------------------
\* formatTime with noon and its minutes taken as AM
formatTime_NoonIsAM(time24) ==
  LET parts   == Split(time24, ":")
      hours   == Number(parts[1])
      minutes == Number(parts[2])
      period  == IF hours > 12 THEN <<"P", "M">> ELSE <<"A", "M">>
      hours12 == IF hours % 12 = 0 THEN 12 ELSE hours % 12
  IN PadStart2(NumToString(hours12)) \o <<":">>
       \o PadStart2(NumToString(minutes)) \o <<" ">> \o period

\* Convert 24-hour time to 12-hour format
formatTime(time24) ==
  LET parts   == Split(time24, ":")
      hours   == Number(parts[1])
      minutes == Number(parts[2])
      period  == IF hours >= 12 THEN <<"P", "M">> ELSE <<"A", "M">>
      hours12 == IF hours % 12 = 0 THEN 12 ELSE hours % 12
  IN PadStart2(NumToString(hours12)) \o <<":">>
       \o PadStart2(NumToString(minutes)) \o <<" ">> \o period

\* (AM|PM) under the i flag
IsPeriod(s) == ToUpperCase(s) \in {<<"A", "M">>, <<"P", "M">>}

\* one attempt of /(\d{1,2}):(\d{2})\s*(AM|PM)/i at position i with an hour
\* capture of hl digits; k is the length of the \s* run
RegexAt(s, i, hl, k) ==
  /\ i + hl + 4 + k <= Len(s)
  /\ \A j \in i..(i + hl - 1) : IsDigit(s[j])
  /\ s[i + hl] = ":"
  /\ IsDigit(s[i + hl + 1])
  /\ IsDigit(s[i + hl + 2])
  /\ \A j \in (i + hl + 3)..(i + hl + 2 + k) : IsSpace(s[j])
  /\ IsPeriod(SubSeq(s, i + hl + 3 + k, i + hl + 4 + k))

RegexMatchesAt(s, i, hl) == \E k \in 0..Len(s) : RegexAt(s, i, hl, k)

\* String.prototype.match: the leftmost match, the greedy hour capture first
RegexMatch(s) ==
  IF \E i \in 1..Len(s) : \E hl \in {1, 2} : RegexMatchesAt(s, i, hl)
  THEN LET i  == CHOOSE p \in 1..Len(s) :
                   /\ \E hl \in {1, 2} : RegexMatchesAt(s, p, hl)
                   /\ \A q \in 1..(p - 1) :
                        \A hl \in {1, 2} : ~RegexMatchesAt(s, q, hl)
           hl == IF RegexMatchesAt(s, i, 2) THEN 2 ELSE 1
           k  == CHOOSE n \in 0..Len(s) : RegexAt(s, i, hl, n)
       IN [found   |-> TRUE,
           hours   |-> SubSeq(s, i, i + hl - 1),
           minutes |-> SubSeq(s, i + hl + 1, i + hl + 2),
           period  |-> SubSeq(s, i + hl + 3 + k, i + hl + 4 + k)]
  ELSE [found |-> FALSE]

\* parseTime12to24 with the noon exception of the PM rule left out
parseTime12to24_NoNoon(time12) ==
  LET match == RegexMatch(time12)
  IN IF ~match.found THEN <<"0", "0", ":", "0", "0">>
     ELSE LET hours0 == ParseInt(match.hours)
              period == ToUpperCase(match.period)
              hours1 == IF period = <<"P", "M">>
                        THEN hours0 + 12 ELSE hours0
              hours  == IF period = <<"A", "M">> /\ hours1 = 12
                        THEN 0 ELSE hours1
          IN PadStart2(NumToString(hours)) \o <<":">> \o match.minutes

\* Parse 12-hour time to 24-hour format for comparison
parseTime12to24(time12) ==
  LET match == RegexMatch(time12)
  IN IF ~match.found THEN <<"0", "0", ":", "0", "0">>
     ELSE LET hours0 == ParseInt(match.hours)
              period == ToUpperCase(match.period)
              hours1 == IF period = <<"P", "M">> /\ hours0 # 12
                        THEN hours0 + 12 ELSE hours0
              hours  == IF period = <<"A", "M">> /\ hours1 = 12
                        THEN 0 ELSE hours1
          IN PadStart2(NumToString(hours)) \o <<":">> \o match.minutes

\* ------------------------------------------------------------------------
\* Data: dates, the weekly schedule, appointments
\* ------------------------------------------------------------------------
\* A "YYYY-MM-DD" string is modelled by its day number; day 0 is a Monday.
ValidDate(n) == [valid |-> TRUE, day |-> n]

\* a string that new Date() cannot parse
InvalidDate == [valid |-> FALSE]

dayNames ==
  <<"monday", "tuesday", "wednesday", "thursday", "friday", "saturday", "sunday">>

\* new Date(date).toLocaleDateString('en-US', {weekday: 'long'}).toLowerCase():
\* a date-only string is parsed as midnight UTC and the weekday is read in the
\* browser's time zone, which is the previous day in zones behind UTC.
LocaleWeekday(d, behindUTC) ==
  IF ~d.valid THEN "invalid date"
  ELSE LET localDay == IF behindUTC THEN d.day - 1 ELSE d.day
       IN dayNames[(localDay % 7) + 1]

\* useState<Schedule | null>(null)
NullSchedule == [isNull |-> TRUE]

\* "HH:MM" strings of the day settings; <<>> is a missing or empty field
T0000 == <<"0", "0", ":", "0", "0">>
T0100 == <<"0", "1", ":", "0", "0">>
T0900 == <<"0", "9", ":", "0", "0">>
T0940 == <<"0", "9", ":", "4", "0">>
T0945 == <<"0", "9", ":", "4", "5">>
T1000 == <<"1", "0", ":", "0", "0">>
T1330 == <<"1", "3", ":", "3", "0">>
T1430 == <<"1", "4", ":", "3", "0">>
T1630 == <<"1", "6", ":", "3", "0">>
NoTime == <<>>

WorkingHours ==
  { <<T0900, T1000>>, <<T0900, T0945>>, <<T1330, T1430>>, <<T0000, T0100>>,
    <<T1000, T0900>>, <<T0900, T0900>>, <<NoTime, T0940>>, <<T1630, NoTime>> }

\* slotDuration values of the fetched schedule; 0 also stands for a missing one
SlotDurations == {0 - 30, 0, 15, 30, 45, 90}

DaySetting(on, hrs) == [enabled |-> on, start |-> hrs[1], end |-> hrs[2]]

\* weeklySchedule objects: only Monday configured, or Monday switched off and
\* Tuesday working; the other weekdays have no entry
WeeklySchedules ==
  { [n \in {"monday"} |-> DaySetting(TRUE, hrs)] : hrs \in WorkingHours }
  \cup
  { [n \in {"monday", "tuesday"} |-> DaySetting(n = "tuesday", hrs)] :
      hrs \in {<<T0900, T1000>>, <<T1330, T1430>>} }

Schedules ==
  { [isNull |-> FALSE, weeklySchedule |-> ws, slotDuration |-> sd] :
      ws \in WeeklySchedules, sd \in SlotDurations }

\* appointment time strings as the API may store them
ApptTimes ==
  { <<"1", "4", ":", "0", "0">>,
    <<"2", ":", "0", "0", " ", "P", "M">>,
    <<"2", ":", "0", "0", " ", "p", "m">>,
    <<"b", "a", "d">>,
    <<"b", "a", "d", " ", "P", "M">> }

\* the k-th appointment of a fetched list; every second one has no patient
\* name
Appt(k, d, t) ==
  [id          |-> k,
   patientName |-> IF k % 2 = 0 THEN "" ELSE "Ann",
   date        |-> d,
   time        |-> t]

\* dates of the appointments of a list: all on day 0, or alternating between
\* day 1 and day 0
ApptDatePatterns ==
  { [k \in 1..MaxAppts |-> ValidDate(0)],
    [k \in 1..MaxAppts |-> ValidDate(k % 2)] }

AppointmentLists ==
  UNION { { [k \in 1..n |-> Appt(k, ds[k], ts[k])] :
              ds \in ApptDatePatterns, ts \in [1..n -> ApptTimes] } :
          n \in 0..MaxAppts }

\* dates generateTimeSlots is called with
QueryDates == {ValidDate(0), ValidDate(1), InvalidDate}

\* ------------------------------------------------------------------------
\* State
\* ------------------------------------------------------------------------
VARIABLES
  schedule,      \* useState<Schedule | null>
  appointments,  \* useState<Appointment[]>
  isLoading,     \* useState(true)
  behindUTC,     \* the browser's time zone is behind UTC
  pc,            \* "idle", "loop" (inside generateTimeSlots), "done"
                 \* (returned) or "error" (threw)
  date,          \* argument of the current generateTimeSlots call
  currentHour,   \* loop cursor
  currentMin,
  slots,         \* slots pushed so far
  timeSlots,     \* value returned by the last completed call
  selectedDate,  \* useState<string>: the day shown
  viewMode,      \* useState<'day' | 'week'>
  fetchOutcome,  \* how fetchData's Promise.all settled: "pending", "resolved"
                 \* or "rejected"; the component keeps no record of it
  time12Arg,        \* a 12-hour time handed to parseTime12to24 on its own
  parsed,        \* its result; <<>> before the call
  time24Arg,     \* a 24-hour time handed to formatTime on its own
  formatted      \* its result; <<>> before the call

\* DoctorProfilePage
VARIABLES
  profileIsLoading,  \* useState(true)
  isSaving,          \* useState(false)
  message,           \* useState<{type, text} | null>: its type, or "none"
  pendingUpdate,     \* useState<PendingUpdate>
  formData,          \* useState<ProfileData>: the name field
  fetchProfilePc,    \* the await fetchProfile is suspended at, or "done"
  serverPending,     \* the pending update of the doctor's record on the server
  submitsInFlight,   \* requestProfileUpdate calls not yet settled
  submitEvents,      \* number of handleSubmit runs so far
  requestCalls,      \* number of requestProfileUpdate invocations so far
  succeededCalls     \* number of them that resolved

\* BookingModal
VARIABLES
  isOpen,               \* prop
  bookingSelectedDate,  \* useState: selectedDate
  selectedTime,         \* useState('')
  consultationType,     \* useState<'video' | 'in-person'>
  bookingTimeSlots,     \* useState<TimeSlot[]>: timeSlots
  bookingIsLoading,     \* useState(false): isLoading
  error,                \* useState<string | null>: "" for null
  inFlight,             \* getAvailableSlots requests not yet settled
  nextRequest,          \* number of the next request
  confirmed             \* the (date, time, type) triples onConfirm was called with

\* the browser
VARIABLES
  page  \* the component that is mounted

\* AdminDashboard
VARIABLES
  adminUser,             \* getUser(): the stored user's role, or "none"
  adminMounted,          \* the mount effect has run
  redirected,            \* router.push('/login') was called
  activeTab,             \* useState: 'overview' | 'doctors' | 'patients' |
                         \* 'profile-requests'
  doctorFilter,          \* useState: 'all' | 'pending' | 'verified' | 'rejected'
  adminIsLoading,        \* useState(true): isLoading
  actionLoading,         \* useState<string | null>: a doctor id, or "null"
  stats,                 \* useState<AdminStats | null>
  doctors,               \* useState<Doctor[]>
  patients,              \* useState<Patient[]>
  profileRequests,       \* useState<Doctor[]>
  serverStatus,          \* the server's verification status of each doctor
  serverProfilePending,  \* the doctors with a profile update awaiting decision
  adminInFlight,         \* the bag of fetch calls not yet settled
  adminEvents            \* number of clicks handled so far

calendarVars ==
  <<schedule, appointments, isLoading, behindUTC, pc, date,
    currentHour, currentMin, slots, timeSlots,
    selectedDate, viewMode, fetchOutcome>>

parseVars == <<time12Arg, parsed, time24Arg, formatted>>

profileVars ==
  <<profileIsLoading, isSaving, message, pendingUpdate, formData,
    fetchProfilePc, serverPending, submitsInFlight, submitEvents, requestCalls,
    succeededCalls>>

bookingVars ==
  <<isOpen, bookingSelectedDate, selectedTime, consultationType,
    bookingTimeSlots, bookingIsLoading, error, inFlight, nextRequest,
    confirmed>>

\* everything outside the schedule calendar
adminVars ==
  <<adminUser, adminMounted, redirected, activeTab, doctorFilter,
    adminIsLoading, actionLoading, stats, doctors, patients, profileRequests,
    serverStatus, serverProfilePending, adminInFlight, adminEvents>>

otherVars == <<parseVars, profileVars, bookingVars, adminVars, page>>

vars ==
  <<calendarVars, parseVars, profileVars, bookingVars, adminVars, page>>

\* ------------------------------------------------------------------------
\* generateTimeSlots
\* ------------------------------------------------------------------------
\* schedule.weeklySchedule[dayName]; a missing key reads as undefined
HasDaySchedule(sch, d, tz) ==
  LocaleWeekday(d, tz) \in DOMAIN sch.weeklySchedule

daySchedule(sch, d, tz) == sch.weeklySchedule[LocaleWeekday(d, tz)]

\* the early returns without the test of the enabled flag
ReturnsEarly_IgnoresEnabled(sch, d, tz) ==
  \/ sch.isNull
  \/ ~HasDaySchedule(sch, d, tz)

\* the two early returns: !schedule and !daySchedule?.enabled
ReturnsEarly(sch, d, tz) ==
  \/ sch.isNull
  \/ ~HasDaySchedule(sch, d, tz)
  \/ ~daySchedule(sch, d, tz).enabled

\* daySchedule.start || '09:00'
startTime(sch, d, tz) ==
  IF daySchedule(sch, d, tz).start = <<>> THEN T0900
  ELSE daySchedule(sch, d, tz).start

\* daySchedule.end || '17:00'
endTime(sch, d, tz) ==
  IF daySchedule(sch, d, tz).end = <<>> THEN <<"1", "7", ":", "0", "0">>
  ELSE daySchedule(sch, d, tz).end

\* schedule.slotDuration || 30
slotDuration(sch) == IF sch.slotDuration = 0 THEN 30 ELSE sch.slotDuration

startHour(sch, d, tz) == Number(Split(startTime(sch, d, tz), ":")[1])
startMin(sch, d, tz) == Number(Split(startTime(sch, d, tz), ":")[2])
endHour(sch, d, tz) == Number(Split(endTime(sch, d, tz), ":")[1])
endMin(sch, d, tz) == Number(Split(endTime(sch, d, tz), ":")[2])

\* the while condition with the end included
LoopCond_Inclusive(h, m, eh, em) == h < eh \/ (h = eh /\ m <= em)

\* the while condition comparing the hours only
LoopCond_HoursOnly(h, m, eh, em) == h <= eh

\* the while condition
LoopCond(h, m, eh, em) == h < eh \/ (h = eh /\ m < em)

\* `${currentHour...padStart(2,'0')}:${currentMin...padStart(2,'0')}`
Time24(h, m) ==
  PadStart2(NumToString(h)) \o <<":">> \o PadStart2(NumToString(m))

\* the appointment's time taken as it is stored, never parsed
apptTime24_Verbatim(appt) == appt.time

\* the appointment's time parsed as 12-hour time whatever it contains
apptTime24_AlwaysParse(appt) == parseTime12to24(appt.time)

\* a time without a period given a leading zero when its hour has one digit
apptTime24_PadsHour(appt) ==
  IF Includes(appt.time, <<"A", "M">>) \/ Includes(appt.time, <<"P", "M">>)
  THEN parseTime12to24(appt.time)
  ELSE IF Len(appt.time) = 4 THEN <<"0">> \o appt.time ELSE appt.time

\* the appointment's time in 24-hour form, as the find callback computes it
apptTime24(appt) ==
  IF Includes(appt.time, <<"A", "M">>) \/ Includes(appt.time, <<"P", "M">>)
  THEN parseTime12to24(appt.time)
  ELSE appt.time

\* the appointments of every date
dateAppointments_AllDates(appts, d) == appts

\* appointments.filter((appt) => appt.date === date)
dateAppointments(appts, d) == SelectSeq(appts, LAMBDA appt : appt.date = d)

\* Array.prototype.find: index of the first element that satisfies the test,
\* 0 when there is none
FindIndex(appts, time24) ==
  IF \E i \in 1..Len(appts) : apptTime24(appts[i]) = time24
  THEN CHOOSE i \in 1..Len(appts) :
         /\ apptTime24(appts[i]) = time24
         /\ \A j \in 1..(i - 1) : apptTime24(appts[j]) # time24
  ELSE 0

\* the slot pushed for the cursor position (h, m)
SlotAt(h, m, appts, d) ==
  LET time24 == Time24(h, m)
      time12 == formatTime(time24)
      cands  == dateAppointments(appts, d)
      idx    == FindIndex(cands, time24)
  IN IF idx # 0
     THEN [time          |-> time12,
           available     |-> FALSE,
           patientName   |-> IF cands[idx].patientName = "" THEN "Patient"
                             ELSE cands[idx].patientName,
           appointmentId |-> cands[idx].id]
     ELSE [time |-> time12, available |-> TRUE]

\* Advance by slot duration
AdvanceMin(m, dur) == IF m + dur >= 60 THEN (m + dur) % 60 ELSE m + dur

\* the hour left alone when the minutes pass 59
AdvanceHour_NoCarry(h, m, dur) == h

\* one hour carried whenever the minutes pass 59
AdvanceHour_OneCarry(h, m, dur) == IF m + dur >= 60 THEN h + 1 ELSE h

\* currentHour += Math.floor(currentMin / 60) when currentMin >= 60
AdvanceHour(h, m, dur) == IF m + dur >= 60 THEN h + ((m + dur) \div 60) ELSE h

\* the whole function as a value: the slots returned, or finished = FALSE when
\* the loop is still running after `fuel` iterations
RECURSIVE SlotLoop(_, _, _, _, _, _, _, _, _)
SlotLoop(h, m, acc, eh, em, dur, appts, d, fuel) ==
  IF ~LoopCond(h, m, eh, em) THEN [finished |-> TRUE, slots |-> acc]
  ELSE IF fuel = 0 THEN [finished |-> FALSE, slots |-> acc]
  ELSE SlotLoop(AdvanceHour(h, m, dur), AdvanceMin(m, dur),
                Append(acc, SlotAt(h, m, appts, d)),
                eh, em, dur, appts, d, fuel - 1)

generateTimeSlots(sch, appts, d, tz) ==
  IF ReturnsEarly(sch, d, tz) THEN [finished |-> TRUE, slots |-> <<>>]
  ELSE SlotLoop(startHour(sch, d, tz), startMin(sch, d, tz), <<>>,
                endHour(sch, d, tz), endMin(sch, d, tz), slotDuration(sch),
                appts, d, MaxIter)

\* ------------------------------------------------------------------------
\* Actions
\* ------------------------------------------------------------------------
\* a 12-hour time as written: hour 1..12 with or without a leading zero, two
\* minute digits, an optional blank, the period in upper or lower case
Time12String(t) ==
  (IF t.padded THEN PadStart2(NumToString(t.hour)) ELSE NumToString(t.hour))
    \o <<":">> \o PadStart2(NumToString(t.minute))
    \o (IF t.blank THEN <<" ">> ELSE <<>>)
    \o (IF t.pm THEN (IF t.lower THEN <<"p", "m">> ELSE <<"P", "M">>)
                ELSE (IF t.lower THEN <<"a", "m">> ELSE <<"A", "M">>))

WellFormedTimes12 ==
  [hour : 1..12, minute : 0..59, pm : BOOLEAN,
   padded : BOOLEAN, blank : BOOLEAN, lower : BOOLEAN]

\* the 24-hour time 00:00
NoTime24 == [hour |-> 0, minute |-> 0]

NoTime12 ==
  [hour |-> 12, minute |-> 0, pm |-> FALSE,
   padded |-> TRUE, blank |-> TRUE, lower |-> FALSE]

\* { hasPendingUpdate: false }
NoPendingUpdate == [hasPendingUpdate |-> FALSE]

\* { hasPendingUpdate: true, pendingData: data, requestedAt }
PendingUpdateOf(data) == [hasPendingUpdate |-> TRUE, pendingData |-> data]

\* DoctorProfilePage after construction
InitProfile ==
  /\ profileIsLoading = TRUE
  /\ isSaving = FALSE
  /\ message = "none"
  /\ pendingUpdate = NoPendingUpdate
  /\ formData = ""
  /\ fetchProfilePc = "getProfile"
  /\ submitsInFlight = <<>>
  /\ submitEvents = 0
  /\ requestCalls = 0
  /\ succeededCalls = 0

\* the dates the booking modal is used with; the first one is today
BookingDates == {"2025-01-06", "2025-01-07", "2025-01-08"}

\* BookingModal after construction, not yet opened
InitBooking ==
  /\ isOpen = FALSE
  /\ bookingSelectedDate = "2025-01-06"
  /\ selectedTime = ""
  /\ consultationType = "video"
  /\ bookingTimeSlots = <<>>
  /\ bookingIsLoading = FALSE
  /\ error = ""
  /\ inFlight = {}
  /\ nextRequest = 1
  /\ confirmed = {}

\* the doctors of the platform
DoctorIds == {"d1", "d2"}

DoctorOrder == <<"d1", "d2">>

\* a row of data.doctors
DoctorRow(id, status) == [id |-> id, verificationStatus |-> status]

\* GET /admin/doctors and /admin/doctors?status=filter
ServerDoctors(status, filter) ==
  SelectSeq([k \in 1..Len(DoctorOrder) |->
               DoctorRow(DoctorOrder[k], status[DoctorOrder[k]])],
            LAMBDA row : /\ row.verificationStatus # "deleted"
                         /\ filter \in {"all", row.verificationStatus})

\* GET /admin/profile-requests
ServerProfileRequests(status, pending) ==
  SelectSeq([k \in 1..Len(DoctorOrder) |->
               DoctorRow(DoctorOrder[k], status[DoctorOrder[k]])],
            LAMBDA row : /\ row.verificationStatus # "deleted"
                         /\ pending[row.id])

\* GET /admin/patients
ServerPatients == <<"p1">>

\* useState<AdminStats | null>(null)
NullStats == [isNull |-> TRUE]

\* GET /admin/stats: the part the page branches on
ServerStats(status) ==
  [isNull  |-> FALSE,
   pending |-> Cardinality({d \in DoctorIds : status[d] = "pending"})]

\* AdminDashboard after construction; the server holds a doctor awaiting
\* verification and a rejected one, both with a profile update to decide
InitAdmin ==
  /\ adminMounted = FALSE
  /\ redirected = FALSE
  /\ activeTab = "overview"
  /\ doctorFilter = "all"
  /\ adminIsLoading = TRUE
  /\ actionLoading = "null"
  /\ stats = NullStats
  /\ doctors = <<>>
  /\ patients = <<>>
  /\ profileRequests = <<>>
  /\ serverStatus = [d \in DoctorIds |->
                       IF d = "d1" THEN "pending" ELSE "rejected"]
  /\ serverProfilePending = [d \in DoctorIds |-> TRUE]
  /\ adminInFlight = EmptyBag
  /\ adminEvents = 0

\* the component after construction
InitCalendar ==
  /\ viewMode = "week"
  /\ fetchOutcome = "pending"
  /\ schedule = NullSchedule
  /\ appointments = <<>>
  /\ isLoading = TRUE
  /\ pc = "idle"
  /\ date = InvalidDate
  /\ currentHour = 0
  /\ currentMin = 0
  /\ slots = <<>>
  /\ timeSlots = <<>>

Init ==
  /\ InitCalendar
  /\ selectedDate = ValidDate(0)
  /\ behindUTC \in BOOLEAN
  /\ time12Arg = NoTime12
  /\ parsed = <<>>
  /\ time24Arg = NoTime24
  /\ formatted = <<>>
  /\ InitProfile
  /\ serverPending = NoPendingUpdate
  /\ InitBooking
  /\ InitAdmin
  /\ adminUser = "admin"
  /\ page = "ScheduleCalendar"

\* fetchData: both requests resolved
FetchDataResolved ==
  /\ isLoading
  /\ pc # "loop"
  /\ \E appointmentsData \in AppointmentLists :
       appointments' = appointmentsData
  /\ \E scheduleData \in Schedules :
       schedule' = scheduleData
  /\ isLoading' = FALSE
  /\ fetchOutcome' = "resolved"
  /\ pc' = "idle"
  /\ UNCHANGED <<behindUTC, date, currentHour, currentMin, slots, timeSlots>>
  /\ UNCHANGED <<selectedDate, viewMode>>
  /\ UNCHANGED otherVars

\* fetchData: a request rejected; the catch block only logs
FetchDataRejected ==
  /\ isLoading
  /\ pc # "loop"
  /\ isLoading' = FALSE
  /\ fetchOutcome' = "rejected"
  /\ pc' = "idle"
  /\ UNCHANGED <<schedule, appointments, behindUTC, date,
                 currentHour, currentMin, slots, timeSlots>>
  /\ UNCHANGED <<selectedDate, viewMode>>
  /\ UNCHANGED otherVars

\* a render calls generateTimeSlots(d): the early returns, or loop entry
Call(d) ==
  /\ pc \in {"idle", "done"}
  /\ date' = d
  /\ slots' = <<>>
  /\ IF ReturnsEarly(schedule, d, behindUTC)
     THEN /\ timeSlots' = <<>>
          /\ pc' = "done"
          /\ currentHour' = 0
          /\ currentMin' = 0
     ELSE /\ currentHour' = startHour(schedule, d, behindUTC)
          /\ currentMin' = startMin(schedule, d, behindUTC)
          /\ pc' = "loop"
          /\ UNCHANGED timeSlots
  /\ UNCHANGED <<schedule, appointments, isLoading, behindUTC>>
  /\ UNCHANGED <<selectedDate, viewMode, fetchOutcome>>
  /\ UNCHANGED otherVars

\* an iteration that takes the first appointment off the fetched list
LoopStep_ShiftsAppointments ==
  /\ pc = "loop"
  /\ Len(slots) < MaxIter
  /\ LoopCond(currentHour, currentMin,
              endHour(schedule, date, behindUTC),
              endMin(schedule, date, behindUTC))
  /\ slots' = Append(slots, SlotAt(currentHour, currentMin, appointments, date))
  /\ currentHour' = AdvanceHour(currentHour, currentMin, slotDuration(schedule))
  /\ currentMin' = AdvanceMin(currentMin, slotDuration(schedule))
  /\ appointments' = IF appointments = <<>> THEN <<>> ELSE Tail(appointments)
  /\ UNCHANGED <<schedule, isLoading, behindUTC, pc, date, timeSlots>>
  /\ UNCHANGED <<selectedDate, viewMode, fetchOutcome>>
  /\ UNCHANGED otherVars

\* one iteration of the while loop
LoopStep ==
  /\ pc = "loop"
  /\ Len(slots) < MaxIter
  /\ LoopCond(currentHour, currentMin,
              endHour(schedule, date, behindUTC),
              endMin(schedule, date, behindUTC))
  /\ slots' = Append(slots, SlotAt(currentHour, currentMin, appointments, date))
  /\ currentHour' = AdvanceHour(currentHour, currentMin, slotDuration(schedule))
  /\ currentMin' = AdvanceMin(currentMin, slotDuration(schedule))
  /\ UNCHANGED <<schedule, appointments, isLoading, behindUTC, pc, date,
                 timeSlots>>
  /\ UNCHANGED <<selectedDate, viewMode, fetchOutcome>>
  /\ UNCHANGED otherVars

\* the loop condition is false: return slots
Return ==
  /\ pc = "loop"
  /\ ~LoopCond(currentHour, currentMin,
               endHour(schedule, date, behindUTC),
               endMin(schedule, date, behindUTC))
  /\ timeSlots' = slots
  /\ pc' = "done"
  /\ UNCHANGED <<schedule, appointments, isLoading, behindUTC, date,
                 currentHour, currentMin, slots>>
  /\ UNCHANGED <<selectedDate, viewMode, fetchOutcome>>
  /\ UNCHANGED otherVars

Next ==
  \/ FetchDataResolved
  \/ FetchDataRejected
  \/ \E d \in QueryDates : Call(d)
  \/ LoopStep
  \/ Return

Spec == Init /\ [][Next]_vars

\* parseTime12to24 applied to a 12-hour time on its own
ParseCall ==
  /\ parsed = <<>>
  /\ parsed' = parseTime12to24(Time12String(time12Arg))
  /\ UNCHANGED <<time12Arg, time24Arg, formatted>>
  /\ UNCHANGED <<calendarVars, profileVars, bookingVars, adminVars, page>>

InitParse ==
  /\ InitCalendar
  /\ selectedDate = ValidDate(0)
  /\ behindUTC = FALSE
  /\ time12Arg \in WellFormedTimes12
  /\ parsed = <<>>
  /\ time24Arg = NoTime24
  /\ formatted = <<>>
  /\ InitProfile
  /\ serverPending = NoPendingUpdate
  /\ InitBooking
  /\ InitAdmin
  /\ adminUser = "admin"
  /\ page = "ScheduleCalendar"

NextParse == ParseCall

SpecParse == InitParse /\ [][NextParse]_vars

\* the valid 24-hour times HH:MM
Times24 == [hour : 0..23, minute : 0..59]

\* formatTime applied to a 24-hour time on its own
FormatCall ==
  /\ formatted = <<>>
  /\ formatted' = formatTime(Time24(time24Arg.hour, time24Arg.minute))
  /\ UNCHANGED <<time12Arg, parsed, time24Arg>>
  /\ UNCHANGED <<calendarVars, profileVars, bookingVars, adminVars, page>>

\* parseTime12to24 applied to the string formatTime returned
ParseFormatted ==
  /\ formatted # <<>>
  /\ parsed = <<>>
  /\ parsed' = parseTime12to24(formatted)
  /\ UNCHANGED <<time12Arg, time24Arg, formatted>>
  /\ UNCHANGED <<calendarVars, profileVars, bookingVars, adminVars, page>>

InitRoundTrip ==
  /\ InitCalendar
  /\ selectedDate = ValidDate(0)
  /\ behindUTC = FALSE
  /\ time12Arg = NoTime12
  /\ parsed = <<>>
  /\ time24Arg \in Times24
  /\ formatted = <<>>
  /\ InitProfile
  /\ serverPending = NoPendingUpdate
  /\ InitBooking
  /\ InitAdmin
  /\ adminUser = "admin"
  /\ page = "ScheduleCalendar"

NextRoundTrip == FormatCall \/ ParseFormatted

SpecRoundTrip == InitRoundTrip /\ [][NextRoundTrip]_vars

\* 24-hour times stored without a period, with and without a leading zero
T0930 == <<"0", "9", ":", "3", "0">>
U900 == <<"9", ":", "0", "0">>
U930 == <<"9", ":", "3", "0">>

StoredTimes24 == {T0900, U900, T0930, U930}

StoredAppointmentLists ==
  UNION { { [k \in 1..n |-> Appt(k, ds[k], ts[k])] :
              ds \in ApptDatePatterns, ts \in [1..n -> StoredTimes24] } :
          n \in 0..MaxAppts }

\* generateTimeSlots on its own: the schedule and the appointments are in
\* place, the appointment times are stored in 24-hour form
InitStored ==
  /\ InitCalendar
  /\ selectedDate = ValidDate(0)
  /\ behindUTC \in BOOLEAN
  /\ time12Arg = NoTime12
  /\ parsed = <<>>
  /\ time24Arg = NoTime24
  /\ formatted = <<>>
  /\ InitProfile
  /\ serverPending = NoPendingUpdate
  /\ InitBooking
  /\ InitAdmin
  /\ adminUser = "admin"
  /\ page = "ScheduleCalendar"

\* fetchData resolved with such appointments
FetchStored ==
  /\ isLoading
  /\ pc # "loop"
  /\ \E appointmentsData \in StoredAppointmentLists :
       appointments' = appointmentsData
  /\ \E scheduleData \in Schedules :
       schedule' = scheduleData
  /\ isLoading' = FALSE
  /\ fetchOutcome' = "resolved"
  /\ pc' = "idle"
  /\ UNCHANGED <<behindUTC, date, currentHour, currentMin, slots, timeSlots>>
  /\ UNCHANGED <<selectedDate, viewMode>>
  /\ UNCHANGED otherVars

NextStored ==
  \/ FetchStored
  \/ \E d \in QueryDates : Call(d)
  \/ LoopStep
  \/ Return

SpecStored == InitStored /\ [][NextStored]_vars

\* ------------------------------------------------------------------------
\* The ScheduleCalendar component: views and navigation
\* ------------------------------------------------------------------------
\* the days the calendar is moved between: a Monday, the Tuesday after it
\* and the Sunday of the same week
ViewDates == {ValidDate(0), ValidDate(1), ValidDate(6)}

\* new Date(selectedDate) is midnight UTC; getDate() and getDay() read it in
\* the browser's time zone, where it is still the previous day when the zone
\* is behind UTC
LocalDay(d, tz) == IF tz THEN d.day - 1 ELSE d.day

\* Date.prototype.getDay of a local day: 0 is Sunday
GetDay(localDay) == (localDay + 1) % 7

\* weekStart.setDate(today.getDate() - today.getDay() + 1)
WeekStart(sel, tz) == LocalDay(sel, tz) - GetDay(LocalDay(sel, tz)) + 1

\* date.toISOString().split('T')[0] of a local day at the local time of
\* midnight UTC
ISODate(localDay, tz) == ValidDate(IF tz THEN localDay + 1 ELSE localDay)

shortDayNames == <<"Mon", "Tue", "Wed", "Thu", "Fri", "Sat", "Sun">>

\* the entry of the week strip built in iteration i of the loop
WeekDayAt(sch, appts, sel, tz, i) ==
  LET dateStr == ISODate(WeekStart(sel, tz) + i, tz)
      dayName == dayNames[i + 1]
  IN [date         |-> dateStr,
      day          |-> shortDayNames[i + 1],
      dayName      |-> dayName,
      appointments |-> Len(dateAppointments(appts, dateStr)),
      enabled      |-> /\ dayName \in DOMAIN sch.weeklySchedule
                       /\ sch.weeklySchedule[dayName].enabled]

generateWeekDays(sch, appts, sel, tz) ==
  IF sch.isNull THEN <<>>
  ELSE SelectSeq([k \in 1..7 |-> WeekDayAt(sch, appts, sel, tz, k - 1)],
                 LAMBDA day : day.enabled)

\* schedule?.weeklySchedule[selectedDayName]?.enabled || false
selectedDayEnabled(sch, sel, tz) ==
  /\ ~sch.isNull
  /\ HasDaySchedule(sch, sel, tz)
  /\ daySchedule(sch, sel, tz).enabled

\* what the component shows below its header
Display ==
  IF isLoading THEN "spinner"
  ELSE IF viewMode = "week"
  THEN (IF Len(generateWeekDays(schedule, appointments, selectedDate,
                                behindUTC)) = 0
        THEN "No working days configured"
        ELSE "week strip")
  ELSE IF ~selectedDayEnabled(schedule, selectedDate, behindUTC)
  THEN "This day is not a working day"
  ELSE IF Len(timeSlots) = 0
  THEN "No time slots configured for this day"
  ELSE "slot list"

\* the buttons are on the page: the component has rendered its current state
\* and shows no spinner
Interactive == pc = "done" /\ ~isLoading

\* the Day and Week buttons, and "View weekly schedule"
SetViewMode(mode) ==
  /\ Interactive
  /\ mode # viewMode
  /\ viewMode' = mode
  /\ pc' = "idle"
  /\ UNCHANGED <<schedule, appointments, isLoading, behindUTC, date,
                 currentHour, currentMin, slots, timeSlots,
                 selectedDate, fetchOutcome>>
  /\ UNCHANGED otherVars

\* a click on the k-th day of the week strip
SelectWeekDay(k) ==
  /\ Interactive
  /\ viewMode = "week"
  /\ LET weekDays == generateWeekDays(schedule, appointments, selectedDate,
                                      behindUTC)
     IN /\ k \in 1..Len(weekDays)
        /\ weekDays[k].date \in ViewDates
        /\ selectedDate' = weekDays[k].date
  /\ viewMode' = "day"
  /\ pc' = "idle"
  /\ UNCHANGED <<schedule, appointments, isLoading, behindUTC, date,
                 currentHour, currentMin, slots, timeSlots, fetchOutcome>>
  /\ UNCHANGED otherVars

\* the previous and next buttons that leave the selected date as it is shown
navigateDay_NoRerender(direction) ==
  /\ Interactive
  /\ viewMode = "day"
  /\ LET day == selectedDate.day + (IF direction = "next" THEN 1 ELSE 0 - 1)
     IN /\ ValidDate(day) \in ViewDates
        /\ selectedDate' = ValidDate(day)
  /\ UNCHANGED <<schedule, appointments, isLoading, behindUTC, pc, date,
                 currentHour, currentMin, slots, timeSlots,
                 viewMode, fetchOutcome>>
  /\ UNCHANGED otherVars

\* the previous and next buttons of the day view
navigateDay(direction) ==
  /\ Interactive
  /\ viewMode = "day"
  /\ LET day == selectedDate.day + (IF direction = "next" THEN 1 ELSE 0 - 1)
     IN /\ ValidDate(day) \in ViewDates
        /\ selectedDate' = ValidDate(day)
  /\ pc' = "idle"
  /\ UNCHANGED <<schedule, appointments, isLoading, behindUTC, date,
                 currentHour, currentMin, slots, timeSlots,
                 viewMode, fetchOutcome>>
  /\ UNCHANGED otherVars

\* the render after a state change: timeSlots = generateTimeSlots(selectedDate)
Render ==
  /\ pc = "idle"
  /\ Call(selectedDate)

InitView ==
  /\ InitCalendar
  /\ selectedDate \in ViewDates
  /\ behindUTC \in BOOLEAN
  /\ time12Arg = NoTime12
  /\ parsed = <<>>
  /\ time24Arg = NoTime24
  /\ formatted = <<>>
  /\ InitProfile
  /\ serverPending = NoPendingUpdate
  /\ InitBooking
  /\ InitAdmin
  /\ adminUser = "admin"
  /\ page = "ScheduleCalendar"

NextView ==
  \/ FetchDataResolved
  \/ FetchDataRejected
  \/ Render
  \/ LoopStep
  \/ Return
  \/ \E mode \in {"day", "week"} : SetViewMode(mode)
  \/ \E k \in 1..7 : SelectWeekDay(k)
  \/ \E direction \in {"prev", "next"} : navigateDay(direction)

SpecView == InitView /\ [][NextView]_vars

\* ------------------------------------------------------------------------
\* DoctorProfilePage
\* ------------------------------------------------------------------------
\* the names a profile carries and the form is edited to
ProfileNames == {"", "Ann", "Bob"}

\* what the server holds for the doctor when the page is opened
ServerPendingStates == {NoPendingUpdate, PendingUpdateOf("Old")}

\* fetchProfile: getProfile resolved, the form is filled from it
GetProfileResolved ==
  /\ fetchProfilePc = "getProfile"
  /\ \E name \in ProfileNames : formData' = name
  /\ fetchProfilePc' = "getPendingUpdate"
  /\ UNCHANGED <<profileIsLoading, isSaving, message, pendingUpdate,
                 serverPending, submitsInFlight, submitEvents, requestCalls>>
  /\ UNCHANGED succeededCalls
  /\ UNCHANGED <<calendarVars, parseVars, bookingVars, adminVars, page>>

\* fetchProfile: getProfile rejected, the outer catch and the finally block
GetProfileRejected ==
  /\ fetchProfilePc = "getProfile"
  /\ message' = "error"
  /\ profileIsLoading' = FALSE
  /\ fetchProfilePc' = "done"
  /\ UNCHANGED <<isSaving, pendingUpdate, formData, serverPending,
                 submitsInFlight, submitEvents, requestCalls>>
  /\ UNCHANGED succeededCalls
  /\ UNCHANGED <<calendarVars, parseVars, bookingVars, adminVars, page>>

\* fetchProfile: getPendingUpdate resolved with what the server holds
GetPendingUpdateResolved ==
  /\ fetchProfilePc = "getPendingUpdate"
  /\ pendingUpdate' = serverPending
  /\ profileIsLoading' = FALSE
  /\ fetchProfilePc' = "done"
  /\ UNCHANGED <<isSaving, message, formData, serverPending,
                 submitsInFlight, submitEvents, requestCalls>>
  /\ UNCHANGED succeededCalls
  /\ UNCHANGED <<calendarVars, parseVars, bookingVars, adminVars, page>>

\* fetchProfile: getPendingUpdate rejected, the inner catch
GetPendingUpdateRejected ==
  /\ fetchProfilePc = "getPendingUpdate"
  /\ pendingUpdate' = NoPendingUpdate
  /\ profileIsLoading' = FALSE
  /\ fetchProfilePc' = "done"
  /\ UNCHANGED <<isSaving, message, formData, serverPending,
                 submitsInFlight, submitEvents, requestCalls>>
  /\ UNCHANGED succeededCalls
  /\ UNCHANGED <<calendarVars, parseVars, bookingVars, adminVars, page>>

\* a form edit that also drops the pending update the page holds
HandleChange_DiscardsPending(name) ==
  /\ ~profileIsLoading
  /\ name # formData
  /\ formData' = name
  /\ pendingUpdate' = NoPendingUpdate
  /\ UNCHANGED <<profileIsLoading, isSaving, message, fetchProfilePc,
                 serverPending, submitsInFlight, submitEvents, requestCalls>>
  /\ UNCHANGED succeededCalls
  /\ UNCHANGED <<calendarVars, parseVars, bookingVars, adminVars, page>>

\* handleChange of the name input, which is disabled while an update is
\* pending
HandleChange(name) ==
  /\ ~profileIsLoading
  /\ ~pendingUpdate.hasPendingUpdate
  /\ name # formData
  /\ formData' = name
  /\ UNCHANGED <<profileIsLoading, isSaving, message, pendingUpdate,
                 fetchProfilePc, serverPending, submitsInFlight, submitEvents,
                 requestCalls>>
  /\ UNCHANGED succeededCalls
  /\ UNCHANGED <<calendarVars, parseVars, bookingVars, adminVars, page>>

\* handleSubmit behind a submit button that is never disabled
HandleSubmit_ButtonNeverDisabled ==
  /\ ~profileIsLoading
  /\ submitEvents < MaxSubmits
  /\ submitEvents' = submitEvents + 1
  /\ IF pendingUpdate.hasPendingUpdate
     THEN /\ message' = "warning"
          /\ UNCHANGED <<isSaving, submitsInFlight, requestCalls>>
     ELSE /\ isSaving' = TRUE
          /\ message' = "none"
          /\ submitsInFlight' = Append(submitsInFlight, formData)
          /\ requestCalls' = requestCalls + 1
  /\ UNCHANGED <<profileIsLoading, pendingUpdate, formData, fetchProfilePc,
                 serverPending>>
  /\ UNCHANGED succeededCalls
  /\ UNCHANGED <<calendarVars, parseVars, bookingVars, adminVars, page>>

\* handleSubmit up to its await; the submit button is disabled while saving
\* or pending
HandleSubmit ==
  /\ ~profileIsLoading
  /\ ~(isSaving \/ pendingUpdate.hasPendingUpdate)
  /\ submitEvents < MaxSubmits
  /\ submitEvents' = submitEvents + 1
  /\ IF pendingUpdate.hasPendingUpdate
     THEN /\ message' = "warning"
          /\ UNCHANGED <<isSaving, submitsInFlight, requestCalls>>
     ELSE /\ isSaving' = TRUE
          /\ message' = "none"
          /\ submitsInFlight' = Append(submitsInFlight, formData)
          /\ requestCalls' = requestCalls + 1
  /\ UNCHANGED <<profileIsLoading, pendingUpdate, formData, fetchProfilePc,
                 serverPending>>
  /\ UNCHANGED succeededCalls
  /\ UNCHANGED <<calendarVars, parseVars, bookingVars, adminVars, page>>

\* requestProfileUpdate resolved: the server stores the update, the page
\* holds it as pending
SubmitResolved ==
  /\ submitsInFlight # <<>>
  /\ serverPending' = PendingUpdateOf(Head(submitsInFlight))
  /\ message' = "success"
  /\ pendingUpdate' = PendingUpdateOf(Head(submitsInFlight))
  /\ isSaving' = FALSE
  /\ submitsInFlight' = Tail(submitsInFlight)
  /\ succeededCalls' = succeededCalls + 1
  /\ UNCHANGED <<profileIsLoading, formData, fetchProfilePc, submitEvents,
                 requestCalls>>
  /\ UNCHANGED <<calendarVars, parseVars, bookingVars, adminVars, page>>

\* a rejected request that leaves the page as if it had been accepted
SubmitRejected_SetsPending ==
  /\ submitsInFlight # <<>>
  /\ message' = "error"
  /\ pendingUpdate' = PendingUpdateOf(Head(submitsInFlight))
  /\ isSaving' = FALSE
  /\ submitsInFlight' = Tail(submitsInFlight)
  /\ UNCHANGED <<profileIsLoading, formData, fetchProfilePc,
                 serverPending, submitEvents, requestCalls>>
  /\ UNCHANGED succeededCalls
  /\ UNCHANGED <<calendarVars, parseVars, bookingVars, adminVars, page>>

\* requestProfileUpdate rejected
SubmitRejected ==
  /\ submitsInFlight # <<>>
  /\ message' = "error"
  /\ isSaving' = FALSE
  /\ submitsInFlight' = Tail(submitsInFlight)
  /\ UNCHANGED <<profileIsLoading, pendingUpdate, formData, fetchProfilePc,
                 serverPending, submitEvents, requestCalls>>
  /\ UNCHANGED succeededCalls
  /\ UNCHANGED <<calendarVars, parseVars, bookingVars, adminVars, page>>

\* an admin approves or rejects the pending update; the page is not told
AdminDecides ==
  /\ serverPending.hasPendingUpdate
  /\ serverPending' = NoPendingUpdate
  /\ UNCHANGED <<profileIsLoading, isSaving, message, pendingUpdate, formData,
                 fetchProfilePc, submitsInFlight, submitEvents, requestCalls>>
  /\ UNCHANGED succeededCalls
  /\ UNCHANGED <<calendarVars, parseVars, bookingVars, adminVars, page>>

InitProfilePage ==
  /\ InitProfile
  /\ serverPending \in ServerPendingStates
  /\ InitCalendar
  /\ selectedDate = ValidDate(0)
  /\ behindUTC = FALSE
  /\ time12Arg = NoTime12
  /\ parsed = <<>>
  /\ time24Arg = NoTime24
  /\ formatted = <<>>
  /\ InitBooking
  /\ InitAdmin
  /\ adminUser = "admin"
  /\ page = "DoctorProfilePage"

NextProfile ==
  \/ GetProfileResolved
  \/ GetProfileRejected
  \/ GetPendingUpdateResolved
  \/ GetPendingUpdateRejected
  \/ \E name \in ProfileNames : HandleChange(name)
  \/ HandleSubmit
  \/ SubmitResolved
  \/ SubmitRejected
  \/ AdminDecides

SpecProfile == InitProfilePage /\ [][NextProfile]_vars

\* ------------------------------------------------------------------------
\* BookingModal
\* ------------------------------------------------------------------------
\* response.slots of getAvailableSlots(doctorId, date)
ServerSlots(d) ==
  IF d = "2025-01-06" THEN <<"09:00", "09:30">>
  ELSE IF d = "2025-01-07" THEN <<"09:30", "10:00">>
  ELSE <<>>

ConsultationTypes == {"video", "in-person"}

\* the modal is opened: the effect calls fetchAvailableSlots(selectedDate)
OpenModal ==
  /\ ~isOpen
  /\ nextRequest <= MaxRequests
  /\ isOpen' = TRUE
  /\ bookingIsLoading' = TRUE
  /\ error' = ""
  /\ selectedTime' = ""
  /\ inFlight' = inFlight \cup {[id |-> nextRequest, date |-> bookingSelectedDate]}
  /\ nextRequest' = nextRequest + 1
  /\ UNCHANGED <<bookingSelectedDate, consultationType, bookingTimeSlots,
                 confirmed>>
  /\ UNCHANGED <<calendarVars, parseVars, profileVars, adminVars, page>>

\* the Cancel and close buttons and the backdrop
CloseModal ==
  /\ isOpen
  /\ isOpen' = FALSE
  /\ UNCHANGED <<bookingSelectedDate, selectedTime, consultationType,
                 bookingTimeSlots, bookingIsLoading, error, inFlight,
                 nextRequest, confirmed>>
  /\ UNCHANGED <<calendarVars, parseVars, profileVars, adminVars, page>>

\* handleDateChange, and the effect that calls fetchAvailableSlots(date)
HandleDateChange(d) ==
  /\ isOpen
  /\ d # bookingSelectedDate
  /\ nextRequest <= MaxRequests
  /\ bookingSelectedDate' = d
  /\ bookingIsLoading' = TRUE
  /\ error' = ""
  /\ selectedTime' = ""
  /\ inFlight' = inFlight \cup {[id |-> nextRequest, date |-> d]}
  /\ nextRequest' = nextRequest + 1
  /\ UNCHANGED <<isOpen, consultationType, bookingTimeSlots, confirmed>>
  /\ UNCHANGED <<calendarVars, parseVars, profileVars, adminVars, page>>

SetConsultationType(type) ==
  /\ isOpen
  /\ type # consultationType
  /\ consultationType' = type
  /\ UNCHANGED <<isOpen, bookingSelectedDate, selectedTime, bookingTimeSlots,
                 bookingIsLoading, error, inFlight, nextRequest, confirmed>>
  /\ UNCHANGED <<calendarVars, parseVars, profileVars, adminVars, page>>

\* fetchAvailableSlots after its await: the request resolved
SlotsResolved(request) ==
  /\ request \in inFlight
  /\ bookingTimeSlots' = ServerSlots(request.date)
  /\ error' = IF Len(ServerSlots(request.date)) = 0
               THEN "No available slots for this date" ELSE error
  /\ bookingIsLoading' = FALSE
  /\ inFlight' = inFlight \ {request}
  /\ UNCHANGED <<isOpen, bookingSelectedDate, selectedTime, consultationType,
                 nextRequest, confirmed>>
  /\ UNCHANGED <<calendarVars, parseVars, profileVars, adminVars, page>>

\* fetchAvailableSlots after its await: the request rejected
SlotsRejected(request) ==
  /\ request \in inFlight
  /\ bookingTimeSlots' = <<>>
  /\ error' = "Failed to load available slots"
  /\ bookingIsLoading' = FALSE
  /\ inFlight' = inFlight \ {request}
  /\ UNCHANGED <<isOpen, bookingSelectedDate, selectedTime, consultationType,
                 nextRequest, confirmed>>
  /\ UNCHANGED <<calendarVars, parseVars, profileVars, adminVars, page>>

\* a click on the k-th slot button; the grid is rendered when nothing is
\* loading and no error is set
SelectTime(k) ==
  /\ isOpen
  /\ ~bookingIsLoading
  /\ error = ""
  /\ k \in 1..Len(bookingTimeSlots)
  /\ selectedTime' = bookingTimeSlots[k]
  /\ UNCHANGED <<isOpen, bookingSelectedDate, consultationType,
                 bookingTimeSlots, bookingIsLoading, error, inFlight,
                 nextRequest, confirmed>>
  /\ UNCHANGED <<calendarVars, parseVars, profileVars, adminVars, page>>

\* handleConfirm: onConfirm(selectedDate, selectedTime, consultationType),
\* then onClose()
HandleConfirm ==
  /\ isOpen
  /\ selectedTime # ""
  /\ confirmed' = confirmed \cup {[date |-> bookingSelectedDate,
                                    time |-> selectedTime,
                                    type |-> consultationType]}
  /\ isOpen' = FALSE
  /\ UNCHANGED <<bookingSelectedDate, selectedTime, consultationType,
                 bookingTimeSlots, bookingIsLoading, error, inFlight,
                 nextRequest>>
  /\ UNCHANGED <<calendarVars, parseVars, profileVars, adminVars, page>>

InitBookingModal ==
  /\ InitBooking
  /\ InitCalendar
  /\ selectedDate = ValidDate(0)
  /\ behindUTC = FALSE
  /\ time12Arg = NoTime12
  /\ parsed = <<>>
  /\ time24Arg = NoTime24
  /\ formatted = <<>>
  /\ InitProfile
  /\ serverPending = NoPendingUpdate
  /\ InitAdmin
  /\ adminUser = "admin"
  /\ page = "BookingModal"

NextBooking ==
  \/ OpenModal
  \/ CloseModal
  \/ \E d \in BookingDates : HandleDateChange(d)
  \/ \E type \in ConsultationTypes : SetConsultationType(type)
  \/ \E request \in inFlight : SlotsResolved(request)
  \/ \E request \in inFlight : SlotsRejected(request)
  \/ \E k \in 1..2 : SelectTime(k)
  \/ HandleConfirm

SpecBooking == InitBookingModal /\ [][NextBooking]_vars

\* ------------------------------------------------------------------------
\* The AdminDashboard page
\* ------------------------------------------------------------------------
AdminUsers == {"admin", "doctor", "none"}

Tabs == {"overview", "doctors", "patients", "profile-requests"}

DoctorFilters == {"all", "pending", "verified", "rejected"}

\* how a fetch call settles: response.ok, a non-OK response, or a rejection
FetchOutcomes == {"ok", "notOk", "throws"}

\* a fetch call: what it asks for, the doctorFilter of the render whose
\* closure issued it, the handler that awaits it (op, doctor) and the
\* fetches that handler makes after this one
FetchCall(kind, filter, doctor, op, rest) ==
  [kind |-> kind, filter |-> filter,
   doctor |-> doctor, op |-> op, rest |-> rest]

\* the dashboard content is on the page, not the spinner
Rendered == adminMounted /\ ~adminIsLoading

\* the mount effect without its early return for other users
MountEffect_NoReturn ==
  /\ ~adminMounted
  /\ adminMounted' = TRUE
  /\ redirected' = (adminUser # "admin")
  /\ adminInFlight' = adminInFlight (+)
       SetToBag({FetchCall("stats", doctorFilter, "none", "mount",
                           <<"requests">>)})
  /\ UNCHANGED <<adminUser, activeTab, doctorFilter, adminIsLoading,
                 actionLoading, stats, doctors, patients, profileRequests,
                 serverStatus, serverProfilePending, adminEvents>>
  /\ UNCHANGED <<calendarVars, parseVars, profileVars, bookingVars, page>>

\* the effects of the first render: the role check with fetchData, and the
\* tab effect, which fetches nothing for the overview tab
MountEffect ==
  /\ ~adminMounted
  /\ adminMounted' = TRUE
  /\ IF adminUser # "admin"
     THEN /\ redirected' = TRUE
          /\ UNCHANGED adminInFlight
     ELSE /\ adminInFlight' = adminInFlight (+)
               SetToBag({FetchCall("stats", doctorFilter, "none", "mount",
                                   <<"requests">>)})
          /\ UNCHANGED redirected
  /\ UNCHANGED <<adminUser, activeTab, doctorFilter, adminIsLoading,
                 actionLoading, stats, doctors, patients, profileRequests,
                 serverStatus, serverProfilePending, adminEvents>>
  /\ UNCHANGED <<calendarVars, parseVars, profileVars, bookingVars, page>>

\* the fetch the tab effect makes for a tab and a filter
TabFetch(tab, filter) ==
  IF tab = "doctors"
  THEN {FetchCall("doctors", filter, "none", "none", <<>>)}
  ELSE IF tab = "patients"
  THEN {FetchCall("patients", filter, "none", "none", <<>>)}
  ELSE IF tab = "profile-requests"
  THEN {FetchCall("requests", filter, "none", "none", <<>>)}
  ELSE {}

\* a tab button, or "Review Now" of the profile requests alert, followed by
\* the tab effect
SetActiveTab(tab) ==
  /\ Rendered
  /\ adminEvents < MaxAdminEvents
  /\ tab # activeTab
  /\ activeTab' = tab
  /\ adminInFlight' = adminInFlight (+) SetToBag(TabFetch(tab, doctorFilter))
  /\ adminEvents' = adminEvents + 1
  /\ UNCHANGED <<adminUser, adminMounted, redirected, doctorFilter,
                 adminIsLoading, actionLoading, stats, doctors, patients,
                 profileRequests, serverStatus, serverProfilePending>>
  /\ UNCHANGED <<calendarVars, parseVars, profileVars, bookingVars, page>>

\* "Review Now" of the pending verifications alert, followed by the tab
\* effect
ReviewPending ==
  /\ Rendered
  /\ adminEvents < MaxAdminEvents
  /\ activeTab = "overview"
  /\ ~stats.isNull
  /\ stats.pending > 0
  /\ activeTab' = "doctors"
  /\ doctorFilter' = "pending"
  /\ adminInFlight' = adminInFlight (+) SetToBag(TabFetch("doctors", "pending"))
  /\ adminEvents' = adminEvents + 1
  /\ UNCHANGED <<adminUser, adminMounted, redirected,
                 adminIsLoading, actionLoading, stats, doctors, patients,
                 profileRequests, serverStatus, serverProfilePending>>
  /\ UNCHANGED <<calendarVars, parseVars, profileVars, bookingVars, page>>

\* a filter button of the doctors tab, followed by the tab effect
SetDoctorFilter(filter) ==
  /\ Rendered
  /\ adminEvents < MaxAdminEvents
  /\ activeTab = "doctors"
  /\ filter # doctorFilter
  /\ doctorFilter' = filter
  /\ adminInFlight' = adminInFlight (+) SetToBag(TabFetch("doctors", filter))
  /\ adminEvents' = adminEvents + 1
  /\ UNCHANGED <<adminUser, adminMounted, redirected, activeTab,
                 adminIsLoading, actionLoading, stats, doctors, patients,
                 profileRequests, serverStatus, serverProfilePending>>
  /\ UNCHANGED <<calendarVars, parseVars, profileVars, bookingVars, page>>

\* a handler of a doctor's row up to its first await: setActionLoading(id)
\* and the request; the row's buttons are disabled while actionLoading is
\* the row's id
StartAction(doctor, op, rest) ==
  /\ Rendered
  /\ adminEvents < MaxAdminEvents
  /\ actionLoading # doctor
  /\ actionLoading' = doctor
  /\ adminInFlight' = adminInFlight (+)
       SetToBag({FetchCall("post", doctorFilter, doctor, op, rest)})
  /\ adminEvents' = adminEvents + 1
  /\ UNCHANGED <<adminUser, adminMounted, redirected, activeTab, doctorFilter,
                 adminIsLoading, stats, doctors, patients,
                 profileRequests, serverStatus, serverProfilePending>>
  /\ UNCHANGED <<calendarVars, parseVars, profileVars, bookingVars, page>>

\* the rows of a list with a given id
RowsOf(list, doctor) == {k \in 1..Len(list) : list[k].id = doctor}

\* Verify of a pending row, Re-verify of a rejected row
verifyDoctor(doctor) ==
  /\ activeTab = "doctors"
  /\ \E k \in RowsOf(doctors, doctor) :
       doctors[k].verificationStatus \in {"pending", "rejected"}
  /\ StartAction(doctor, "verify", <<"doctors", "stats", "requests">>)

\* Reject of a pending row
rejectDoctor(doctor) ==
  /\ activeTab = "doctors"
  /\ \E k \in RowsOf(doctors, doctor) :
       doctors[k].verificationStatus = "pending"
  /\ StartAction(doctor, "reject", <<"doctors", "stats", "requests">>)

\* the delete button of a row, confirmed in the dialog
deleteDoctor(doctor) ==
  /\ activeTab = "doctors"
  /\ RowsOf(doctors, doctor) # {}
  /\ StartAction(doctor, "delete", <<"doctors", "stats", "requests">>)

\* Approve of a profile request
approveProfileUpdate(doctor) ==
  /\ activeTab = "profile-requests"
  /\ RowsOf(profileRequests, doctor) # {}
  /\ StartAction(doctor, "approve-profile", <<"requests", "doctors">>)

\* Reject of a profile request
rejectProfileUpdate(doctor) ==
  /\ activeTab = "profile-requests"
  /\ RowsOf(profileRequests, doctor) # {}
  /\ StartAction(doctor, "reject-profile", <<"requests">>)

\* the verification status after an accepted request
StatusAfter(status, call) ==
  IF call.op = "verify" THEN [status EXCEPT ![call.doctor] = "verified"]
  ELSE IF call.op = "reject" THEN [status EXCEPT ![call.doctor] = "rejected"]
  ELSE IF call.op = "delete" THEN [status EXCEPT ![call.doctor] = "deleted"]
  ELSE status

\* the profile requests after an accepted request
PendingAfter(pending, call) ==
  IF call.op \in {"approve-profile", "reject-profile"}
  THEN [pending EXCEPT ![call.doctor] = FALSE]
  ELSE pending

\* the fetches the awaiting handler still makes once a call has settled: a
\* handler skips its refreshes unless its request was accepted, and fetchData
\* skips fetchProfileRequests when the stats fetch throws
Remaining(call, outcome) ==
  IF call.kind = "post" /\ outcome # "ok" THEN <<>>
  ELSE IF call.kind = "stats" /\ outcome = "throws" THEN <<>>
  ELSE call.rest

\* fetchData has run to its finally block when this call was its last
EndsFetchData(call) ==
  /\ call.kind \in {"stats", "requests"}
  /\ call.op \in {"mount", "verify", "reject", "delete"}

\* a settled call whose handler leaves actionLoading as it is
FetchSettled_KeepsActionLoading(call, outcome) ==
  /\ BagIn(call, adminInFlight)
  /\ call.kind = "post" /\ outcome = "ok" =>
       serverStatus[call.doctor] # "deleted"
  /\ stats' = IF call.kind = "stats" /\ outcome = "ok"
              THEN ServerStats(serverStatus) ELSE stats
  /\ doctors' = IF call.kind = "doctors" /\ outcome = "ok"
                THEN ServerDoctors(serverStatus, call.filter) ELSE doctors
  /\ patients' = IF call.kind = "patients" /\ outcome = "ok"
                 THEN ServerPatients ELSE patients
  /\ profileRequests' =
       IF call.kind = "requests" /\ outcome = "ok"
       THEN ServerProfileRequests(serverStatus, serverProfilePending)
       ELSE profileRequests
  /\ serverStatus' = IF call.kind = "post" /\ outcome = "ok"
                     THEN StatusAfter(serverStatus, call) ELSE serverStatus
  /\ serverProfilePending' =
       IF call.kind = "post" /\ outcome = "ok"
       THEN PendingAfter(serverProfilePending, call)
       ELSE serverProfilePending
  /\ IF Remaining(call, outcome) # <<>>
     THEN /\ adminInFlight' = (adminInFlight (-) SetToBag({call})) (+)
               SetToBag({FetchCall(Head(Remaining(call, outcome)),
                                   call.filter, call.doctor, call.op,
                                   Tail(Remaining(call, outcome)))})
          /\ UNCHANGED <<adminIsLoading, actionLoading>>
     ELSE /\ adminInFlight' = adminInFlight (-) SetToBag({call})
          /\ adminIsLoading' =
               IF EndsFetchData(call) THEN FALSE ELSE adminIsLoading
          /\ UNCHANGED actionLoading
  /\ UNCHANGED <<adminUser, adminMounted, redirected, activeTab, doctorFilter,
                 adminEvents>>
  /\ UNCHANGED <<calendarVars, parseVars, profileVars, bookingVars, page>>

\* a fetch call settles and the handler awaiting it runs on: it stores an OK
\* response, makes its next fetch or runs its finally block
FetchSettled(call, outcome) ==
  /\ BagIn(call, adminInFlight)
  /\ call.kind = "post" /\ outcome = "ok" =>
       serverStatus[call.doctor] # "deleted"
  /\ stats' = IF call.kind = "stats" /\ outcome = "ok"
              THEN ServerStats(serverStatus) ELSE stats
  /\ doctors' = IF call.kind = "doctors" /\ outcome = "ok"
                THEN ServerDoctors(serverStatus, call.filter) ELSE doctors
  /\ patients' = IF call.kind = "patients" /\ outcome = "ok"
                 THEN ServerPatients ELSE patients
  /\ profileRequests' =
       IF call.kind = "requests" /\ outcome = "ok"
       THEN ServerProfileRequests(serverStatus, serverProfilePending)
       ELSE profileRequests
  /\ serverStatus' = IF call.kind = "post" /\ outcome = "ok"
                     THEN StatusAfter(serverStatus, call) ELSE serverStatus
  /\ serverProfilePending' =
       IF call.kind = "post" /\ outcome = "ok"
       THEN PendingAfter(serverProfilePending, call)
       ELSE serverProfilePending
  /\ IF Remaining(call, outcome) # <<>>
     THEN /\ adminInFlight' = (adminInFlight (-) SetToBag({call})) (+)
               SetToBag({FetchCall(Head(Remaining(call, outcome)),
                                   call.filter, call.doctor, call.op,
                                   Tail(Remaining(call, outcome)))})
          /\ UNCHANGED <<adminIsLoading, actionLoading>>
     ELSE /\ adminInFlight' = adminInFlight (-) SetToBag({call})
          /\ adminIsLoading' =
               IF EndsFetchData(call) THEN FALSE ELSE adminIsLoading
          /\ actionLoading' =
               IF call.op \in {"mount", "none"} THEN actionLoading ELSE "null"
  /\ UNCHANGED <<adminUser, adminMounted, redirected, activeTab, doctorFilter,
                 adminEvents>>
  /\ UNCHANGED <<calendarVars, parseVars, profileVars, bookingVars, page>>

InitAdminDashboard ==
  /\ InitAdmin
  /\ adminUser \in AdminUsers
  /\ InitCalendar
  /\ selectedDate = ValidDate(0)
  /\ behindUTC = FALSE
  /\ time12Arg = NoTime12
  /\ parsed = <<>>
  /\ time24Arg = NoTime24
  /\ formatted = <<>>
  /\ InitProfile
  /\ serverPending = NoPendingUpdate
  /\ InitBooking
  /\ page = "AdminDashboard"

NextAdmin ==
  \/ MountEffect
  \/ \E tab \in Tabs : SetActiveTab(tab)
  \/ ReviewPending
  \/ \E filter \in DoctorFilters : SetDoctorFilter(filter)
  \/ \E doctor \in DoctorIds : verifyDoctor(doctor)
  \/ \E doctor \in DoctorIds : rejectDoctor(doctor)
  \/ \E doctor \in DoctorIds : deleteDoctor(doctor)
  \/ \E doctor \in DoctorIds : approveProfileUpdate(doctor)
  \/ \E doctor \in DoctorIds : rejectProfileUpdate(doctor)
  \/ \E call \in BagToSet(adminInFlight) :
       \E outcome \in FetchOutcomes : FetchSettled(call, outcome)

SpecAdmin == InitAdminDashboard /\ [][NextAdmin]_vars

\* ------------------------------------------------------------------------
\* The four components and their requests
\* ------------------------------------------------------------------------
\* one of the components is mounted, for an admin in the case of the
\* dashboard
InitLoading ==
  /\ page \in {"ScheduleCalendar", "BookingModal", "DoctorProfilePage",
              "AdminDashboard"}
  /\ InitCalendar
  /\ selectedDate = ValidDate(0)
  /\ behindUTC = FALSE
  /\ time12Arg = NoTime12
  /\ parsed = <<>>
  /\ time24Arg = NoTime24
  /\ formatted = <<>>
  /\ InitProfile
  /\ serverPending = NoPendingUpdate
  /\ InitBooking
  /\ InitAdmin
  /\ adminUser = "admin"

\* the steps of the mounted component; of ScheduleCalendar, the settling of
\* fetchData, the only code that writes isLoading
CalendarStep ==
  page = "ScheduleCalendar" /\ (FetchDataResolved \/ FetchDataRejected)

NextLoading ==
  \/ CalendarStep
  \/ page = "BookingModal" /\ NextBooking
  \/ page = "DoctorProfilePage" /\ NextProfile
  \/ page = "AdminDashboard" /\ NextAdmin

\* a request of the mounted component completes
BookingSettles ==
  /\ page = "BookingModal"
  /\ \E request \in inFlight : SlotsResolved(request) \/ SlotsRejected(request)

ProfileFetchSettles ==
  /\ page = "DoctorProfilePage"
  /\ \/ GetProfileResolved
     \/ GetProfileRejected
     \/ GetPendingUpdateResolved
     \/ GetPendingUpdateRejected

SubmitSettles ==
  /\ page = "DoctorProfilePage"
  /\ (SubmitResolved \/ SubmitRejected)

AdminMounts == page = "AdminDashboard" /\ MountEffect

AdminFetchSettles ==
  /\ page = "AdminDashboard"
  /\ \E call \in BagToSet(adminInFlight) :
       \E outcome \in FetchOutcomes : FetchSettled(call, outcome)

\* a request of the mounted component completes, or React runs the mount
\* effect; only one component is mounted, and within a component at most
\* one of these kinds of steps is possible at a time
Settles ==
  \/ CalendarStep
  \/ BookingSettles
  \/ ProfileFetchSettles
  \/ SubmitSettles
  \/ AdminMounts
  \/ AdminFetchSettles

\* every request completes and React runs the mount effect
SpecLoading == InitLoading /\ [][NextLoading]_vars /\ WF_vars(Settles)

TypeOK ==
  /\ schedule \in Schedules \cup {NullSchedule}
  /\ appointments \in AppointmentLists \cup StoredAppointmentLists
  /\ isLoading \in BOOLEAN
  /\ behindUTC \in BOOLEAN
  /\ pc \in {"idle", "loop", "done", "error"}
  /\ date \in QueryDates \cup ViewDates
  /\ currentHour \in Int
  /\ currentMin \in Int
  /\ Len(slots) <= MaxIter
  /\ selectedDate \in ViewDates
  /\ viewMode \in {"day", "week"}
  /\ fetchOutcome \in {"pending", "resolved", "rejected"}
  /\ pendingUpdate.hasPendingUpdate \in BOOLEAN
  /\ serverPending.hasPendingUpdate \in BOOLEAN
  /\ message \in {"none", "success", "error", "warning"}
  /\ Len(submitsInFlight) <= 1
  /\ requestCalls <= submitEvents
  /\ bookingSelectedDate \in BookingDates
  /\ consultationType \in ConsultationTypes
  /\ \A request \in inFlight : request.id < nextRequest
  /\ adminUser \in AdminUsers
  /\ adminMounted \in BOOLEAN
  /\ redirected \in BOOLEAN
  /\ activeTab \in Tabs
  /\ doctorFilter \in DoctorFilters
  /\ adminIsLoading \in BOOLEAN
  /\ actionLoading \in DoctorIds \cup {"null"}
  /\ stats.isNull \in BOOLEAN
  /\ Len(doctors) <= Cardinality(DoctorIds)
  /\ Len(profileRequests) <= Cardinality(DoctorIds)
  /\ patients \in {<<>>, ServerPatients}
  /\ serverStatus \in
       [DoctorIds -> {"pending", "verified", "rejected", "deleted"}]
  /\ serverProfilePending \in [DoctorIds -> BOOLEAN]
  /\ IsABag(adminInFlight)
  /\ adminEvents \in 0..MaxAdminEvents

\* ------------------------------------------------------------------------
\* Properties
\* ------------------------------------------------------------------------
\* the 24-hour hour of a 12-hour time
Hour24(t) ==
  IF t.pm THEN (IF t.hour = 12 THEN 12 ELSE t.hour + 12)
  ELSE (IF t.hour = 12 THEN 0 ELSE t.hour)

\* C5: parseTime12to24 turns every well-formed 12-hour time into zero-padded
\* 24-hour HH:MM: 12 AM gives hour 00, 1-11 AM keep their hour, 12 PM stays
\* 12, 1-11 PM add 12, and the minutes are unchanged.
C5_ParseRule ==
  parsed # <<>> =>
    /\ Len(parsed) = 5
    /\ parsed = Time24(Hour24(time12Arg), time12Arg.minute)

\* a 12 PM time written without padding or blank, in lower case, was parsed
C5_Witness ==
  /\ parsed = <<"1", "2", ":", "0", "5">>
  /\ time12Arg.pm /\ time12Arg.lower /\ ~time12Arg.blank

\* a call of generateTimeSlots has returned for an enabled day
ReturnedForEnabledDay ==
  /\ pc = "done"
  /\ ~ReturnsEarly(schedule, date, behindUTC)

\* minutes since midnight of the start and the end of the day called for
StartMinute == 60 * startHour(schedule, date, behindUTC)
                 + startMin(schedule, date, behindUTC)

EndMinute == 60 * endHour(schedule, date, behindUTC)
               + endMin(schedule, date, behindUTC)

\* "hh:mm AM/PM" of a minute of the day
Clock12(t) ==
  LET h == t \div 60
      h12 == IF h % 12 = 0 THEN 12 ELSE h % 12
  IN PadStart2(NumToString(h12)) \o <<":">> \o PadStart2(NumToString(t % 60))
       \o <<" ">> \o (IF h >= 12 THEN <<"P", "M">> ELSE <<"A", "M">>)

\* number of k >= 0 with start + k*d < end
SlotCount(start, end, d) == IF end <= start THEN 0 ELSE (end - start + d - 1) \div d

\* C1: for an enabled day with start < end and a positive slot duration d the
\* returned list holds exactly one slot for every time start + k*d that is
\* strictly earlier than end, in that order, and no slot at or after end.
C1_SlotsCoverHalfOpenRange ==
  (/\ ReturnedForEnabledDay
   /\ schedule.slotDuration > 0
   /\ StartMinute < EndMinute)
  => LET d == schedule.slotDuration
         n == SlotCount(StartMinute, EndMinute, d)
     IN /\ Len(timeSlots) = n
        /\ \A k \in 1..n :
             /\ timeSlots[k].time = Clock12(StartMinute + (k - 1) * d)
             /\ StartMinute + (k - 1) * d < EndMinute

\* 09:00-09:45 with d = 30 returned "09:00 AM", "09:30 AM"
C1_Witness ==
  /\ ReturnedForEnabledDay
  /\ schedule.slotDuration = 30
  /\ StartMinute = 540 /\ EndMinute = 585
  /\ Len(timeSlots) = 2
  /\ timeSlots[1].time = <<"0", "9", ":", "0", "0", " ", "A", "M">>
  /\ timeSlots[2].time = <<"0", "9", ":", "3", "0", " ", "A", "M">>

\* minutes since midnight of a slot, read back from its 12-hour label
MinuteOfDay(slot) ==
  LET parts == Split(parseTime12to24(slot.time), ":")
  IN 60 * Number(parts[1]) + Number(parts[2])

StrictlyAscending(list) ==
  \A i \in 1..Len(list) : \A j \in 1..Len(list) :
    i < j => MinuteOfDay(list[i]) < MinuteOfDay(list[j])

\* C8: with a positive slot duration the slot sequence, while it is built
\* and when it is returned, is strictly ascending in time of day, so no two
\* slots share a time.
C8_StrictlyAscending ==
  (~schedule.isNull /\ schedule.slotDuration > 0)
  => /\ StrictlyAscending(slots)
     /\ StrictlyAscending(timeSlots)
     /\ \A i \in 1..Len(timeSlots) : \A j \in 1..Len(timeSlots) :
          i # j => timeSlots[i].time # timeSlots[j].time

\* four quarter-hour slots from 09:00 to 09:45 were returned
C8_Witness ==
  /\ ReturnedForEnabledDay
  /\ schedule.slotDuration = 15
  /\ Len(timeSlots) = 4
  /\ MinuteOfDay(timeSlots[1]) = 540
  /\ MinuteOfDay(timeSlots[4]) = 585

\* the weekday resolved for the date of the call has no entry in the
\* template, or is switched off, or the date resolves to no weekday
DayNotWorking ==
  LET wd == LocaleWeekday(date, behindUTC)
  IN \/ ~date.valid
     \/ wd \notin DOMAIN schedule.weeklySchedule
     \/ ~schedule.weeklySchedule[wd].enabled

\* C9: a call for a day that is not a working day returns the empty
\* sequence and raises no error, whatever the appointments and the slot
\* duration are.
C9_EmptyForDisabledDay ==
  (pc # "idle" /\ ~schedule.isNull /\ DayNotWorking)
  => /\ pc = "done"
     /\ timeSlots = <<>>
     /\ slots = <<>>

\* a call for a switched-off Monday returned [] although an appointment is
\* booked on that date and the slot duration is negative
C9_Witness ==
  /\ pc = "done"
  /\ ~schedule.isNull
  /\ date.valid
  /\ LocaleWeekday(date, behindUTC) = "monday"
  /\ "monday" \in DOMAIN schedule.weeklySchedule
  /\ ~schedule.weeklySchedule["monday"].enabled
  /\ schedule.slotDuration < 0
  /\ \E i \in 1..Len(appointments) : appointments[i].date = date
  /\ timeSlots = <<>>

\* indices of the appointments that occupy the slot with 24-hour start t24
Occupants(t24) ==
  { k \in 1..Len(appointments) :
      /\ appointments[k].date = date
      /\ apptTime24(appointments[k]) = t24 }

\* the returned list is what the appointments of the query date alone give
OtherDatesIgnored ==
  timeSlots =
    generateTimeSlots(schedule,
                      SelectSeq(appointments, LAMBDA a : a.date = date),
                      date, behindUTC).slots

\* C2 as stated: a returned slot is unavailable exactly when an appointment
\* of the query date has the slot's 24-hour start as its normalised time, and
\* it then carries that appointment's patient name and id; appointments of
\* other dates have no effect.
C2_OccupiedSlotCarriesName ==
  pc = "done" =>
    /\ \A i \in 1..Len(timeSlots) :
         LET occ == Occupants(parseTime12to24(timeSlots[i].time))
         IN /\ timeSlots[i].available <=> occ = {}
            /\ ~timeSlots[i].available =>
                 \E k \in occ :
                   /\ timeSlots[i].appointmentId = appointments[k].id
                   /\ timeSlots[i].patientName = appointments[k].patientName
    /\ OtherDatesIgnored

\* C2 amended: as C2, but the slot carries the placeholder "Patient" when
\* the occupying appointment has no patient name.
C2_OccupiedSlotCarriesNameOrPlaceholder ==
  pc = "done" =>
    /\ \A i \in 1..Len(timeSlots) :
         LET occ == Occupants(parseTime12to24(timeSlots[i].time))
         IN /\ timeSlots[i].available <=> occ = {}
            /\ ~timeSlots[i].available =>
                 \E k \in occ :
                   /\ timeSlots[i].appointmentId = appointments[k].id
                   /\ timeSlots[i].patientName =
                        IF appointments[k].patientName = "" THEN "Patient"
                        ELSE appointments[k].patientName
    /\ OtherDatesIgnored

\* a returned list has a free slot and a slot occupied by a nameless
\* appointment, while another appointment is booked on a different date
C2_Witness ==
  /\ pc = "done"
  /\ \E i \in 1..Len(timeSlots) : timeSlots[i].available
  /\ \E i \in 1..Len(timeSlots) :
       /\ ~timeSlots[i].available
       /\ timeSlots[i].patientName = "Patient"
  /\ \E k \in 1..Len(appointments) : appointments[k].date # date

\* the appointment list with every time string `from` replaced by `to`
WithTime(appts, from, to) ==
  [k \in 1..Len(appts) |->
     IF appts[k].time = from THEN [appts[k] EXCEPT !.time = to] ELSE appts[k]]

Slots(appts) == generateTimeSlots(schedule, appts, date, behindUTC).slots

H1400 == <<"1", "4", ":", "0", "0">>
PM0200 == <<"2", ":", "0", "0", " ", "P", "M">>
pm0200 == <<"2", ":", "0", "0", " ", "p", "m">>

\* C3: storing an appointment as "14:00" or as "2:00 PM" makes no difference
\* to the returned list, and the slot "02:00 PM" of the appointment's date is
\* unavailable with that appointment attached in both cases.
C3_FormatInsensitive ==
  pc = "done" =>
    /\ timeSlots = Slots(WithTime(appointments, PM0200, H1400))
    /\ timeSlots = Slots(WithTime(appointments, H1400, PM0200))
    /\ \A i \in 1..Len(timeSlots) :
         LET booked == { k \in 1..Len(appointments) :
                           /\ appointments[k].date = date
                           /\ appointments[k].time \in {H1400, PM0200} }
         IN (timeSlots[i].time = Clock12(840) /\ booked # {})
            => /\ ~timeSlots[i].available
               /\ \E k \in booked :
                    /\ timeSlots[i].appointmentId = appointments[k].id
                    /\ appointments[k].patientName # ""
                         => timeSlots[i].patientName
                              = appointments[k].patientName

\* the slot "02:00 PM" was returned as taken by Ann, who is booked at
\* "2:00 PM" on the query date
C3_Witness ==
  /\ pc = "done"
  /\ Len(appointments) >= 1
  /\ appointments[1].date = date
  /\ appointments[1].time = PM0200
  /\ \E i \in 1..Len(timeSlots) :
       /\ timeSlots[i].time = Clock12(840)
       /\ ~timeSlots[i].available
       /\ timeSlots[i].patientName = "Ann"

\* C4 as stated: an appointment stored as "2:00 pm" occupies the 14:00 slot
\* just as one stored as "2:00 PM" does.
C4_MarkerCaseInsensitive ==
  pc = "done" => timeSlots = Slots(WithTime(appointments, pm0200, PM0200))

\* C6 as stated: a call with a slot duration of zero or less signals a
\* configuration error; it neither enters the loop nor returns a slot list.
C6_RejectsNonPositiveDuration ==
  (pc # "idle" /\ ~schedule.isNull /\ schedule.slotDuration <= 0)
  => pc = "error"

\* minutes since midnight of the loop cursor
CursorMinute == 60 * currentHour + currentMin

\* C7 as stated: the slot-generation loop finishes after finitely many
\* iterations for every input. The loop runs for as long as the cursor is
\* before the end time and nothing else ends it, so it finishes only if
\* every iteration moves the cursor forward.
C7_LoopTerminates ==
  [][(pc = "loop" /\ pc' = "loop") => CursorMinute' > CursorMinute]_vars

\* "HH:MM"
IsHHMM(t) ==
  /\ Len(t) = 5
  /\ IsDigit(t[1]) /\ IsDigit(t[2]) /\ t[3] = ":"
  /\ IsDigit(t[4]) /\ IsDigit(t[5])

\* neither a 24-hour HH:MM nor a 12-hour time in either letter case
Malformed(t) == ~IsHHMM(t) /\ ~RegexMatch(t).found

HasMarker(t) == Includes(t, <<"A", "M">>) \/ Includes(t, <<"P", "M">>)

\* C10 as stated: a call returns, and returns what it would return with
\* every malformed appointment time replaced by "00:00".
C10_MalformedIsMidnight ==
  pc = "done" =>
    timeSlots =
      Slots([k \in 1..Len(appointments) |->
               IF Malformed(appointments[k].time)
               THEN [appointments[k] EXCEPT !.time = T0000]
               ELSE appointments[k]])

\* C10 amended: a malformed time that contains "AM" or "PM" counts as
\* "00:00"; a malformed time without such a marker is compared as it is and
\* occupies no slot. With a positive or missing slot duration the call
\* completes whatever the time strings are.
C10_MalformedWithMarkerIsMidnight ==
  /\ pc = "done" =>
       timeSlots =
         Slots([k \in 1..Len(SelectSeq(appointments,
                    LAMBDA a : ~Malformed(a.time) \/ HasMarker(a.time))) |->
                  LET a == SelectSeq(appointments,
                             LAMBDA b : ~Malformed(b.time)
                                          \/ HasMarker(b.time))[k]
                  IN IF Malformed(a.time) THEN [a EXCEPT !.time = T0000]
                     ELSE a])
  /\ (~schedule.isNull /\ schedule.slotDuration >= 0 /\ date.valid)
       => generateTimeSlots(schedule, appointments, date, behindUTC).finished

\* the midnight slot was returned as taken by an appointment stored as
\* "bad PM", with a second appointment stored as "bad" on the same date
C10_Witness ==
  /\ pc = "done"
  /\ Len(appointments) = 2
  /\ appointments[1].date = date /\ appointments[2].date = date
  /\ Malformed(appointments[1].time) /\ ~HasMarker(appointments[1].time)
  /\ Malformed(appointments[2].time) /\ HasMarker(appointments[2].time)
  /\ Len(timeSlots) >= 1
  /\ timeSlots[1].time = Clock12(0)
  /\ ~timeSlots[1].available
  /\ timeSlots[1].appointmentId = appointments[2].id

\* ------------------------------------------------------------------------
\* C11: times without a period
\* ------------------------------------------------------------------------
\* the string holds no AM or PM in either letter case
NoPeriod(t) ==
  /\ ~Includes(ToUpperCase(t), <<"A", "M">>)
  /\ ~Includes(ToUpperCase(t), <<"P", "M">>)

\* zero-padded HH:MM of a minute of the day
ZeroPaddedHHMM(t) ==
  <<Digits[((t \div 60) \div 10) + 1], Digits[((t \div 60) % 10) + 1], ":",
    Digits[((t % 60) \div 10) + 1], Digits[((t % 60) % 10) + 1]>>

\* the k-th returned slot is marked as taken by the i-th appointment
TakenBy(k, i) ==
  /\ ~timeSlots[k].available
  /\ timeSlots[k].appointmentId = appointments[i].id

\* C11: an appointment of the queried date whose time string has no AM/PM
\* period is matched verbatim: a slot it equals character for character
\* (zero-padded HH:MM) is taken, and it takes no slot it differs from, so
\* "09:00" takes the 09:00 slot and "9:00" takes none.
C11_VerbatimWithoutPeriod ==
  ReturnedForEnabledDay =>
    \A k \in 1..Len(timeSlots) : \A i \in 1..Len(appointments) :
      (appointments[i].date = date /\ NoPeriod(appointments[i].time))
      => LET hhmm == ZeroPaddedHHMM(StartMinute
                                     + (k - 1) * slotDuration(schedule))
         IN /\ appointments[i].time = hhmm => ~timeSlots[k].available
            /\ appointments[i].time # hhmm => ~TakenBy(k, i)

\* "9:00" and "09:30" are stored for the queried day: the 09:00 slot is free
\* and the 09:30 slot is taken by the second appointment
C11_Witness ==
  /\ ReturnedForEnabledDay
  /\ Len(timeSlots) = 2
  /\ Len(appointments) = 2
  /\ appointments[1].date = date /\ appointments[1].time = U900
  /\ appointments[2].date = date /\ appointments[2].time = T0930
  /\ StartMinute = 540
  /\ timeSlots[1].available
  /\ TakenBy(2, 2)

\* ------------------------------------------------------------------------
\* C12: the cursor advance
\* ------------------------------------------------------------------------
\* C12: every advance of the slot cursor by a duration the schedule may carry
\* (positive, or missing and replaced by 30) leaves the minute component in
\* 0..59 and moves the cursor by exactly the duration in minutes since
\* midnight, also when the duration is 60 minutes or more.
C12_AdvanceRollsIntoHour ==
  [][(pc = "loop" /\ pc' = "loop" /\ slots' # slots
        /\ schedule.slotDuration >= 0)
     => /\ currentMin' \in 0..59
        /\ 60 * currentHour' + currentMin'
             = 60 * currentHour + currentMin + slotDuration(schedule)]_vars

\* 13:30 advanced by 90 minutes stands at 15:00
C12_Witness ==
  /\ pc = "loop"
  /\ schedule.slotDuration = 90
  /\ Len(slots) = 1
  /\ slots[1].time = <<"0", "1", ":", "3", "0", " ", "P", "M">>
  /\ currentHour = 15
  /\ currentMin = 0

\* ------------------------------------------------------------------------
\* C13: start at or after end
\* ------------------------------------------------------------------------
\* C13: a call for an enabled day whose start is equal to or later than its
\* end pushes no slot, leaves the loop at once and returns the empty
\* sequence; it never ends in an error.
C13_EmptyWhenStartNotBeforeEnd ==
  (/\ pc \in {"loop", "done", "error"}
   /\ ~ReturnsEarly(schedule, date, behindUTC)
   /\ StartMinute >= EndMinute)
  => /\ pc # "error"
     /\ slots = <<>>
     /\ ~LoopCond(currentHour, currentMin,
                  endHour(schedule, date, behindUTC),
                  endMin(schedule, date, behindUTC))
     /\ pc = "done" => timeSlots = <<>>

\* the call for an enabled day from 09:00 to 09:00 has returned, empty
C13_Witness ==
  /\ ReturnedForEnabledDay
  /\ StartMinute = 540
  /\ EndMinute = 540
  /\ timeSlots = <<>>

\* ------------------------------------------------------------------------
\* C16: a failed fetch
\* ------------------------------------------------------------------------
\* C16 as stated: once fetching the schedule or the appointments has failed,
\* the calendar never shows the failure as "not a working day" or as "no
\* working days configured".
C16_FetchFailureNotShownAsEmpty ==
  (fetchOutcome = "rejected" /\ pc = "done")
  => Display \notin {"No working days configured",
                     "This day is not a working day"}

\* ------------------------------------------------------------------------
\* C17: the result as a function of its inputs
\* ------------------------------------------------------------------------
\* C17 as stated: the list a call returns is the one generateTimeSlots
\* yields for the date, the schedule and the appointment list of the call,
\* whatever else holds: the browser's time zone has no influence on it.
C17_DependsOnInputsOnly ==
  pc = "done" =>
    \A tz \in BOOLEAN :
      LET r == generateTimeSlots(schedule, appointments, date, tz)
      IN r.finished /\ timeSlots = r.slots

\* ------------------------------------------------------------------------
\* C18: generateTimeSlots has no side effect
\* ------------------------------------------------------------------------
\* C18: no step of a generateTimeSlots call (entry, loop iteration, return)
\* changes the appointment list, the schedule, the selected date or the view
\* mode.
C18_LeavesInputsUnchanged ==
  [][(/\ pc' \in {"loop", "done"}
      /\ <<pc, date, currentHour, currentMin, slots, timeSlots>>'
           # <<pc, date, currentHour, currentMin, slots, timeSlots>>)
     => UNCHANGED <<appointments, schedule, selectedDate, viewMode>>]_vars

\* a call in the day view has returned two slots, one of them taken, with
\* both fetched appointments still in the list
C18_Witness ==
  /\ ReturnedForEnabledDay
  /\ viewMode = "day"
  /\ date = selectedDate
  /\ Len(appointments) = 2
  /\ Len(timeSlots) = 2
  /\ ~timeSlots[2].available

\* ------------------------------------------------------------------------
\* C19: the slot list on display
\* ------------------------------------------------------------------------
\* C19: whenever the component has rendered, after any date selections,
\* prev/next navigations and fetch completions, its slot list is the list
\* generateTimeSlots yields for the current selected date, schedule and
\* appointments.
C19_DisplayedSlotsAreCurrent ==
  pc = "done" =>
    /\ date = selectedDate
    /\ LET r == generateTimeSlots(schedule, appointments, selectedDate,
                                  behindUTC)
       IN r.finished /\ timeSlots = r.slots

\* the day view of a working Tuesday shows its slots although the Monday
\* before it is no working day
C19_Witness ==
  /\ pc = "done"
  /\ fetchOutcome = "resolved"
  /\ viewMode = "day"
  /\ selectedDate = ValidDate(1)
  /\ ~behindUTC
  /\ ~selectedDayEnabled(schedule, ValidDate(0), behindUTC)
  /\ Display = "slot list"
  /\ Len(timeSlots) = 2

\* ------------------------------------------------------------------------
\* C14, C15: the pending profile update
\* ------------------------------------------------------------------------
\* C14 as stated: a submit while the doctor's record carries a pending update
\* invokes no requestProfileUpdate and shows a warning, whatever the page
\* load and the fetch of the pending status came to.
C14_SubmitWhilePendingRejected ==
  [][(submitEvents' # submitEvents /\ serverPending.hasPendingUpdate)
     => (requestCalls' = requestCalls /\ message' = "warning")]_vars

\* C15: a pending update the page holds, fetched or just submitted, is not
\* cleared on the page for as long as the server still holds one, that is
\* until an admin has approved or rejected it; what it holds stays the same.
C15_PendingStaysUntilDecided ==
  [][(pendingUpdate.hasPendingUpdate /\ serverPending'.hasPendingUpdate)
     => pendingUpdate' = pendingUpdate]_vars

\* after a failed request a second one succeeded: the page holds the
\* submitted data as pending and so does the server
C15_Witness ==
  /\ requestCalls = 2
  /\ submitsInFlight = <<>>
  /\ pendingUpdate.hasPendingUpdate
  /\ pendingUpdate.pendingData = "Bob"
  /\ serverPending = pendingUpdate
  /\ message = "success"

\* ------------------------------------------------------------------------
\* C20: the booking that is confirmed
\* ------------------------------------------------------------------------
\* the elements of a sequence
Range(seq) == {seq[k] : k \in 1..Len(seq)}

\* C20 as stated: every onConfirm(date, time, type) carries a time of the
\* slot list the server returns for that date, in whatever order the
\* responses of overlapping requests arrive.
C20_ConfirmedSlotBelongsToDate ==
  \A booking \in confirmed : booking.time \in Range(ServerSlots(booking.date))

\* ------------------------------------------------------------------------
\* C24, C25: requestProfileUpdate calls
\* ------------------------------------------------------------------------
\* the submit button is enabled
SubmitEnabled == ~(isSaving \/ pendingUpdate.hasPendingUpdate)

\* C24: when a requestProfileUpdate call settles, a failed one leaves the
\* page without a pending update, with an error message and with isSaving
\* false, so that the submit button is enabled again; a successful one, and
\* only that, makes the page hold the submitted form data as pending.
C24_FailedRequestLeavesNoPending ==
  [][Len(submitsInFlight') < Len(submitsInFlight)
     => IF succeededCalls' = succeededCalls
        THEN /\ pendingUpdate' = pendingUpdate
             /\ ~pendingUpdate'.hasPendingUpdate
             /\ message' = "error"
             /\ ~isSaving'
             /\ SubmitEnabled'
        ELSE /\ pendingUpdate' = PendingUpdateOf(Head(submitsInFlight))
             /\ message' = "success"
             /\ ~isSaving']_vars

\* the only request so far has failed: error shown, nothing pending, the
\* form can be submitted again
C24_Witness ==
  /\ requestCalls = 1
  /\ succeededCalls = 0
  /\ submitsInFlight = <<>>
  /\ message = "error"
  /\ fetchProfilePc = "done"
  /\ SubmitEnabled

\* C25: at most one requestProfileUpdate call is in flight at any time, it
\* is in flight only while isSaving is true, and at most one call succeeds
\* during the life of the page.
C25_OneRequestAtATime ==
  /\ Len(submitsInFlight) <= 1
  /\ Len(submitsInFlight) = 1 => isSaving
  /\ succeededCalls <= 1
  /\ succeededCalls = 1 => pendingUpdate.hasPendingUpdate

\* a second request is in flight after the first one failed
C25_Witness ==
  /\ requestCalls = 2
  /\ succeededCalls = 0
  /\ Len(submitsInFlight) = 1
  /\ isSaving

\* ------------------------------------------------------------------------
\* C26: formatTime and parseTime12to24
\* ------------------------------------------------------------------------
\* formatTime of every valid 24-hour time
FormatTable == [t \in Times24 |-> formatTime(Time24(t.hour, t.minute))]

\* C26: for every 24-hour time HH:MM with HH in 00..23 and MM in 00..59,
\* parseTime12to24(formatTime(HH:MM)) = HH:MM; formatTime gives no other
\* valid 24-hour time the same 12-hour string; hour 00 is shown as 12 AM,
\* 12 as 12 PM and 13..23 as 01..11 PM.
C26_FormatParseRoundTrip ==
  /\ parsed # <<>> => parsed = Time24(time24Arg.hour, time24Arg.minute)
  /\ formatted # <<>> =>
       /\ formatted = FormatTable[time24Arg]
       /\ \A t \in Times24 : FormatTable[t] = formatted => t = time24Arg
       /\ SubSeq(formatted, 1, 2) =
            PadStart2(NumToString(
              IF time24Arg.hour = 0 THEN 12
              ELSE IF time24Arg.hour > 12 THEN time24Arg.hour - 12
              ELSE time24Arg.hour))
       /\ SubSeq(formatted, 7, 8) =
            IF time24Arg.hour >= 12 THEN <<"P", "M">> ELSE <<"A", "M">>

\* 12:05 was formatted as 12:05 PM and parsed back
C26_Witness ==
  /\ time24Arg = [hour |-> 12, minute |-> 5]
  /\ formatted = <<"1", "2", ":", "0", "5", " ", "P", "M">>
  /\ parsed = <<"1", "2", ":", "0", "5">>

\* ------------------------------------------------------------------------
\* C27: the week strip
\* ------------------------------------------------------------------------
\* the Monday of the Monday-to-Sunday week that contains a date
MondayOf(d) == d.day - (d.day % 7)

\* the enabled days of the week of sel, Monday first, each with its weekday
\* and the number of appointments on it
WeekOf(sch, appts, sel) ==
  SelectSeq([k \in 1..7 |->
               [date         |-> ValidDate(MondayOf(sel) + k - 1),
                day          |-> shortDayNames[k],
                dayName      |-> dayNames[k],
                appointments |->
                  Len(dateAppointments(appts,
                                       ValidDate(MondayOf(sel) + k - 1))),
                enabled      |-> /\ dayNames[k] \in DOMAIN sch.weeklySchedule
                                 /\ sch.weeklySchedule[dayNames[k]].enabled]],
            LAMBDA day : day.enabled)

\* C27: generateWeekDays lists, Monday first, exactly the enabled weekdays of
\* the Monday-to-Sunday week that contains the selected date, each with its
\* true weekday and the number of appointments on that day.
C27_WeekDaysOfSelectedWeek ==
  (pc = "done" /\ ~schedule.isNull) =>
    generateWeekDays(schedule, appointments, selectedDate, behindUTC)
      = WeekOf(schedule, appointments, selectedDate)

\* ------------------------------------------------------------------------
\* C21, C22, C23: the admin dashboard
\* ------------------------------------------------------------------------
\* the fetch calls in flight that a handler of a doctor's row awaits
ActionCalls(doctor) ==
  {call \in BagToSet(adminInFlight) :
     call.doctor = doctor /\ call.op \notin {"mount", "none"}}

\* C21: while a verify, reject, delete, approve-profile or reject-profile
\* request for a doctor is in flight, actionLoading is that doctor's id,
\* also when an action on another doctor is started or completes, and no
\* second action on the same doctor is in progress.
C21_ActionLoadingWhileInFlight ==
  \A doctor \in DoctorIds :
    /\ (\E call \in ActionCalls(doctor) : call.kind = "post")
         => actionLoading = doctor
    /\ Cardinality(ActionCalls(doctor)) <= 1
    /\ \A call \in ActionCalls(doctor) : CopiesIn(call, adminInFlight) = 1

\* the doctor-list calls in flight
DoctorListCalls ==
  {call \in BagToSet(adminInFlight) : call.kind = "doctors"}

\* C22: a response to a doctor-list request made for another filter than
\* the selected one never changes the displayed doctors list, so that once
\* no doctor-list request is in flight the list is the response for the
\* selected doctorFilter.
C22_LateResponseNeverOverwrites ==
  [][\A call \in DoctorListCalls :
       (/\ CopiesIn(call, adminInFlight') < CopiesIn(call, adminInFlight)
        /\ call.filter # doctorFilter)
       => doctors' = doctors]_vars

\* C23: when the stored user is missing or not an admin, the page redirects
\* to /login, issues no admin API request, handles no click and never shows
\* anything but the spinner.
C23_NonAdminSeesNothing ==
  adminUser # "admin" =>
    /\ adminMounted => redirected
    /\ adminInFlight = EmptyBag
    /\ adminIsLoading
    /\ ~Rendered
    /\ adminEvents = 0
    /\ stats = NullStats /\ doctors = <<>> /\ patients = <<>>
    /\ profileRequests = <<>>

\* a doctor's account opened the admin dashboard and was sent to /login
C23_Witness ==
  /\ adminUser = "doctor"
  /\ adminMounted
  /\ redirected
  /\ adminIsLoading

\* ------------------------------------------------------------------------
\* C28: loading flags
\* ------------------------------------------------------------------------
\* C28: in ScheduleCalendar, BookingModal, the doctor profile page and the
\* admin dashboard of an admin, a loading flag that is set (isLoading,
\* isSaving, actionLoading) is eventually false or null again, whether the
\* requests succeed, return a non-OK response or throw, given that every
\* request completes: at every point of a run each flag is clear then or at
\* some later point.
C28_LoadingFlagsClear ==
  /\ []<>(page = "ScheduleCalendar" => ~isLoading)
  /\ []<>(page = "BookingModal" => ~bookingIsLoading)
  /\ []<>(page = "DoctorProfilePage" => ~profileIsLoading)
  /\ []<>(page = "DoctorProfilePage" => ~isSaving)
  /\ []<>(page = "AdminDashboard" => ~adminIsLoading)
  /\ []<>(page = "AdminDashboard" => actionLoading = "null")

\* the admin verified a doctor, the list and the statistics were fetched
\* again and the row's buttons are enabled again
C28_Witness ==
  /\ page = "AdminDashboard"
  /\ serverStatus["d1"] = "verified"
  /\ adminInFlight = EmptyBag
  /\ actionLoading = "null"
  /\ ~adminIsLoading

====
